---- MODULE Spec2Model ----
(***************************************************************************)
(* Benchmark aggregation, health score and trend engine of envisioner-app. *)
(*                                                                         *)
(*   lib/benchmarks.js (src/unnamed/part_003): contributeToBenchmarks,     *)
(*       refreshBenchmarks, computeSegmentBenchmarks, getBenchmarks        *)
(*   lib/db.js: getUserData, calculateHistoricalTrends, calculateChange,   *)
(*       calculateCpaChange                                                *)
(*   lib/score.js: calculateScore and its thresholds                       *)
(*   app/api/briefing/route.js: GET (the caller of all of the above)       *)
(*                                                                         *)
(* Numbers are exact rationals <<n, d>> with d > 0, kept in lowest terms;  *)
(* the JavaScript null is the pair <<0, 0>>.                               *)
(***************************************************************************)
EXTENDS Integers, Sequences, FiniteSets, Bags, TLC

VARIABLES
    pc,              \* position of the briefing GET handler
    influencers,     \* the tenant's influencers rows, as the request reads them
    data,            \* the object getUserData returned to the handler
    briefing,        \* the briefing the handler generated
    response,        \* what the handler returned to its caller
    task,            \* the contributeToBenchmarks call the handler did not await
    inserted,        \* the last row the task stored, with its pre-noise metrics
    benchmark_data,  \* table benchmark_data: a bag of contribution rows
    benchmarks,      \* table benchmarks: segment -> row, NoRow when absent
    now,             \* the store's clock NOW(), in days
    refresh,         \* position of the refreshBenchmarks job
    lookup,          \* the last getBenchmarks call and what it returned
    sql,             \* the database the request reaches: which stores answer
    stats_history,   \* tables stats_history_redtrack / _content: snapshot rows
    trends,          \* the last calculateHistoricalTrends call and its result
    call,            \* the last call of a pure helper and what it returned
    ai_briefings     \* table ai_briefings: the tenant's cached briefing

vars == <<pc, influencers, data, briefing, response, task, inserted,
          benchmark_data, benchmarks, now, refresh, lookup,
          ai_briefings, sql, stats_history, trends, call>>

(***************************************************************************)
(* Bounds of the model.                                                    *)
(***************************************************************************)
MaxCreators == 6
MaxRows == 10
MaxTicks == 1

(***************************************************************************)
(* Exact rational arithmetic.                                              *)
(***************************************************************************)
Null == <<0, 0>>

IsNull(v) == v = Null

Abs(i) == IF i < 0 THEN -i ELSE i

RECURSIVE Gcd(_, _)
Gcd(a, b) == IF b = 0 THEN a ELSE Gcd(b, a % b)

Rat(n, d) ==
    LET g == Gcd(Abs(n), d)
    IN  <<n \div g, d \div g>>

Whole(n) == <<n, 1>>

RatMul(a, b) ==
    LET g1 == Gcd(Abs(a[1]), b[2])
        g2 == Gcd(Abs(b[1]), a[2])
    IN  Rat((a[1] \div g1) * (b[1] \div g2), (a[2] \div g2) * (b[2] \div g1))

RatDiv(a, b) == RatMul(a, <<b[2], b[1]>>)

RatAdd(a, b) ==
    LET g == Gcd(a[2], b[2])
    IN  Rat(a[1] * (b[2] \div g) + b[1] * (a[2] \div g), (a[2] \div g) * b[2])

RatSub(a, b) == RatAdd(a, <<-b[1], b[2]>>)

RatLeq(a, b) == a[1] * b[2] <= b[1] * a[2]

RatLt(a, b) == a[1] * b[2] < b[1] * a[2]

\* Math.round: the nearest integer, a tie going up.
MathRound(v) == (2 * v[1] + v[2]) \div (2 * v[2])

(***************************************************************************)
(* Period comparisons of lib/db.js: calculateChange, calculateCpaChange.   *)
(* Counts and spends are whole numbers; a JavaScript number that is not    *)
(* finite is the pair Infinity or NaN.                                     *)
(***************************************************************************)
MaxCount == 20
MaxSpend == 20
MaxConv == 2

Infinity == <<1, 0>>

NaN == <<0, -1>>

IsFinite(v) == v[2] > 0

\* a / b on finite numbers, b >= 0: a zero divisor gives Infinity, or NaN for 0 / 0.
JsDiv(a, b) ==
    IF b[1] # 0 THEN RatDiv(a, b)
    ELSE IF a[1] = 0 THEN NaN
    ELSE IF a[1] > 0 THEN Infinity
    ELSE <<-1, 0>>

\* a * b, b finite and positive.
JsMul(a, b) == IF IsFinite(a) THEN RatMul(a, b) ELSE a

\* Math.round on a number that may not be finite.
JsRound(v) == IF IsFinite(v) THEN Whole(MathRound(v)) ELSE v

\* a < n and a > n for a whole n: false on NaN.
JsLess(a, n) == IF IsFinite(a) THEN RatLt(a, Whole(n)) ELSE a = <<-1, 0>>

JsGreater(a, n) == IF IsFinite(a) THEN RatLt(Whole(n), a) ELSE a = Infinity

\* Mutant of calculateChange: any increase is 'up', any decrease 'down'.
calculateChangeNoBand(current, previous) ==
    IF previous = 0 /\ current = 0
    THEN [percent |-> 0, direction |-> "flat", current |-> current, previous |-> previous]
    ELSE IF previous = 0
    THEN [percent |-> 100, direction |-> "up", current |-> current, previous |-> previous]
    ELSE LET percent == MathRound(Rat((current - previous) * 100, previous))
         IN  [percent |-> percent,
              direction |-> IF percent > 0 THEN "up"
                            ELSE IF percent < 0 THEN "down" ELSE "flat",
              current |-> current, previous |-> previous]

\* calculateChange(current, previous)
calculateChange(current, previous) ==
    IF previous = 0 /\ current = 0
    THEN [percent |-> 0, direction |-> "flat", current |-> current, previous |-> previous]
    ELSE IF previous = 0
    THEN [percent |-> 100, direction |-> "up", current |-> current, previous |-> previous]
    ELSE LET percent == MathRound(RatMul(RatDiv(Whole(current - previous), Whole(previous)),
                                         Whole(100)))
         IN  [percent |-> percent,
              direction |-> IF percent > 5 THEN "up"
                            ELSE IF percent < -5 THEN "down" ELSE "flat",
              current |-> current, previous |-> previous]

\* Mutant of CpaDirection: a rising CPA reported as an improvement.
CpaDirectionInverted(percent) ==
    IF JsGreater(percent, 5) THEN "improving"
    ELSE IF JsLess(percent, -5) THEN "worsening" ELSE "stable"

\* direction: percent < -5 ? 'improving' : percent > 5 ? 'worsening' : 'stable'
CpaDirection(percent) ==
    IF JsLess(percent, -5) THEN "improving"
    ELSE IF JsGreater(percent, 5) THEN "worsening" ELSE "stable"

\* Mutant of calculateCpaChange: the period that lost its conversions is not
\* told apart from the period that has none to compare with.
calculateCpaChangeLostAsNew(currentSpend, currentConv, previousSpend, previousConv) ==
    LET currentCpa == IF currentConv > 0 THEN Rat(currentSpend, currentConv) ELSE Null
        previousCpa == IF previousConv > 0 THEN Rat(previousSpend, previousConv) ELSE Null
    IN  IF IsNull(currentCpa) /\ IsNull(previousCpa)
        THEN [percent |-> Whole(0), direction |-> "flat", current |-> Null, previous |-> Null]
        ELSE IF IsNull(previousCpa) \/ IsNull(currentCpa)
        THEN [percent |-> Whole(0), direction |-> "new", current |-> currentCpa,
              previous |-> previousCpa]
        ELSE LET percent == JsRound(JsMul(JsDiv(RatSub(currentCpa, previousCpa), previousCpa),
                                          Whole(100)))
             IN  [percent |-> percent,
                  direction |-> CpaDirection(percent),
                  current |-> RatDiv(Whole(MathRound(RatMul(currentCpa, Whole(100)))), Whole(100)),
                  previous |-> RatDiv(Whole(MathRound(RatMul(previousCpa, Whole(100)))), Whole(100))]

\* calculateCpaChange(currentSpend, currentConv, previousSpend, previousConv)
calculateCpaChange(currentSpend, currentConv, previousSpend, previousConv) ==
    LET currentCpa == IF currentConv > 0 THEN Rat(currentSpend, currentConv) ELSE Null
        previousCpa == IF previousConv > 0 THEN Rat(previousSpend, previousConv) ELSE Null
    IN  IF IsNull(currentCpa) /\ IsNull(previousCpa)
        THEN [percent |-> Whole(0), direction |-> "flat", current |-> Null, previous |-> Null]
        ELSE IF IsNull(previousCpa)
        THEN [percent |-> Whole(0), direction |-> "new", current |-> currentCpa,
              previous |-> Null]
        ELSE IF IsNull(currentCpa)
        THEN [percent |-> Whole(-100), direction |-> "lost", current |-> Null,
              previous |-> previousCpa]
        ELSE LET percent == JsRound(JsMul(JsDiv(RatSub(currentCpa, previousCpa), previousCpa),
                                          Whole(100)))
             IN  [percent |-> percent,
                  direction |-> CpaDirection(percent),
                  current |-> RatDiv(Whole(MathRound(RatMul(currentCpa, Whole(100)))), Whole(100)),
                  previous |-> RatDiv(Whole(MathRound(RatMul(previousCpa, Whole(100)))), Whole(100))]

NoCall == [fn |-> "none", args |-> <<>>, result |-> <<>>]

\* One call of calculateChange, as sumInRange's totals reach it.
CalculateChange(current, previous) ==
    /\ call' = [fn |-> "calculateChange", args |-> <<current, previous>>,
                result |-> calculateChange(current, previous)]
    /\ UNCHANGED <<pc, influencers, data, briefing, response, task, inserted,
                   benchmark_data, benchmarks, now, refresh, lookup,
                   ai_briefings, sql, stats_history, trends>>

\* One call of calculateCpaChange.
CalculateCpaChange(currentSpend, currentConv, previousSpend, previousConv) ==
    /\ call' = [fn |-> "calculateCpaChange",
                args |-> <<currentSpend, currentConv, previousSpend, previousConv>>,
                result |-> calculateCpaChange(currentSpend, currentConv,
                                              previousSpend, previousConv)]
    /\ UNCHANGED <<pc, influencers, data, briefing, response, task, inserted,
                   benchmark_data, benchmarks, now, refresh, lookup,
                   ai_briefings, sql, stats_history, trends>>

(***************************************************************************)
(* The trend engine: calculateHistoricalTrends of lib/db.js.  Time is in   *)
(* hours; a snapshot row carries the columns of stats_history_redtrack     *)
(* (conversions, cost, the creator) and of stats_history_content (views).  *)
(***************************************************************************)
Day == 24
MaxHistory == 4
TopCreators == 5
NoDate == -1

HistoryRow(id, name, recorded_at, conversions, cost, views) ==
    [influencer_id |-> id, influencer_name |-> name, recorded_at |-> recorded_at,
     conversions |-> conversions, cost |-> cost, views |-> views]

\* DATE(recorded_at), read back by new Date(d.date): midnight of the day.
DATE(t) == t - (t % Day)

\* SUM(column) over a set of rows; reduce((sum, d) => sum + Number(d[field]), 0).
RECURSIVE Total(_, _)
Total(rows, field) ==
    IF rows = {} THEN 0
    ELSE LET r == CHOOSE x \in rows : TRUE
         IN  r[field] + Total(rows \ {r}, field)

\* The conversionHistory and contentHistory queries: one row per DATE(recorded_at).
conversionHistory(rows) ==
    { [date |-> d,
       total_conversions |-> Total({ r \in rows : DATE(r.recorded_at) = d }, "conversions"),
       total_cost |-> Total({ r \in rows : DATE(r.recorded_at) = d }, "cost"),
       total_views |-> Total({ r \in rows : DATE(r.recorded_at) = d }, "views")] :
      d \in { DATE(r.recorded_at) : r \in rows } }

\* The influencerHistory query: the trailing 30 days, one row per creator and day.
influencerHistory(rows, at) ==
    LET recent == { r \in rows : r.recorded_at > at - 30 * Day }
    IN  { [influencer_id |-> k[1], influencer_name |-> k[2], date |-> k[3],
           conversions |-> Total({ r \in recent : /\ r.influencer_id = k[1]
                                                 /\ r.influencer_name = k[2]
                                                 /\ DATE(r.recorded_at) = k[3] },
                                 "conversions")] :
          k \in { <<r.influencer_id, r.influencer_name, DATE(r.recorded_at)>> : r \in recent } }

\* const sumInRange = (data, startDate, endDate, field) => ...
sumInRange(history, startDate, endDate, field) ==
    Total({ d \in history : d.date >= startDate /\ d.date <= endDate }, field)

\* One of trends.weekly, trends.monthly, trends.yearly: the window of `days`
\* days ending now against the window before it.
Comparison(history, at, days) ==
    LET from == at - days * Day
        before == at - 2 * days * Day
        thisConv == sumInRange(history, from, at, "total_conversions")
        lastConv == sumInRange(history, before, from, "total_conversions")
        thisViews == sumInRange(history, from, at, "total_views")
        lastViews == sumInRange(history, before, from, "total_views")
        thisSpend == sumInRange(history, from, at, "total_cost")
        lastSpend == sumInRange(history, before, from, "total_cost")
    IN  [conversions |-> calculateChange(thisConv, lastConv),
         views |-> calculateChange(thisViews, lastViews),
         spend |-> calculateChange(thisSpend, lastSpend),
         cpa |-> calculateCpaChange(thisSpend, thisConv, lastSpend, lastConv),
         current |-> [conversions |-> thisConv, views |-> thisViews, spend |-> thisSpend],
         previous |-> [conversions |-> lastConv, views |-> lastViews, spend |-> lastSpend]]

\* The comparison of a scale the call did not get to (the initial `trends`).
NoComparison == [conversions |-> Null, views |-> Null, spend |-> Null, cpa |-> Null]

\* Mutant of Latest: the first conversion kept, not the last.
LatestAsEarliest(dates) ==
    IF dates = {} THEN NoDate ELSE CHOOSE d \in dates : \A e \in dates : d <= e

Latest(dates) == IF dates = {} THEN NoDate ELSE CHOOSE d \in dates : \A e \in dates : e <= d

\* creatorStats[id] after the loop over influencerHistory (ordered date DESC):
\* the name is that of the first row met.
creatorStats(perDay, id, at) ==
    LET mine == { g \in perDay : g.influencer_id = id }
        first == CHOOSE g \in mine : \A h \in mine : h.date <= g.date
        weekAgo == at - 7 * Day
        twoWeeksAgo == at - 14 * Day
    IN  [id |-> id,
         name |-> first.influencer_name,
         thisWeek |-> Total({ g \in mine : g.date >= weekAgo }, "conversions"),
         lastWeek |-> Total({ g \in mine : g.date < weekAgo /\ g.date >= twoWeeksAgo },
                            "conversions"),
         lastConversionDate |-> Latest({ g.date : g \in { h \in mine : h.conversions > 0 } })]

\* Math.floor((now - lastConversionDate) / 86400000), null without a conversion.
daysSinceConversion(stats, at) ==
    IF stats.lastConversionDate = NoDate THEN NoDate
    ELSE (at - stats.lastConversionDate) \div Day

\* Mutant of Bucket: the stalled test made before the cooling test.
BucketStalledFirst(stats, at) ==
    LET change == calculateChange(stats.thisWeek, stats.lastWeek)
    IN  IF change.percent > 20 /\ stats.thisWeek > 0 THEN "rising"
        ELSE IF /\ daysSinceConversion(stats, at) # NoDate
                /\ daysSinceConversion(stats, at) > 7
                /\ stats.lastWeek > 0 THEN "stalled"
        ELSE IF change.percent < -30 /\ stats.lastWeek > 0 THEN "cooling"
        ELSE "none"

\* The if / else if chain that pushes a creator to one list of creatorMomentum.
Bucket(stats, at) ==
    LET change == calculateChange(stats.thisWeek, stats.lastWeek)
    IN  IF change.percent > 20 /\ stats.thisWeek > 0 THEN "rising"
        ELSE IF change.percent < -30 /\ stats.lastWeek > 0 THEN "cooling"
        ELSE IF /\ daysSinceConversion(stats, at) # NoDate
                /\ daysSinceConversion(stats, at) > 7
                /\ stats.lastWeek > 0 THEN "stalled"
        ELSE "none"

\* Mutant of InBucket: three separate ifs, each rule tested on its own.
InBucketNoElse(stats, at, bucket) ==
    LET change == calculateChange(stats.thisWeek, stats.lastWeek)
    IN  CASE bucket = "rising" -> change.percent > 20 /\ stats.thisWeek > 0
          [] bucket = "cooling" -> change.percent < -30 /\ stats.lastWeek > 0
          [] bucket = "stalled" -> /\ daysSinceConversion(stats, at) # NoDate
                                   /\ daysSinceConversion(stats, at) > 7
                                   /\ stats.lastWeek > 0

\* The creator is pushed to the list `bucket`: the branch of the chain taken.
InBucket(stats, at, bucket) == Bucket(stats, at) = bucket

\* The entry pushed for a creator.
MomentumEntry(stats, at, bucket) ==
    IF bucket = "stalled"
    THEN [name |-> stats.name, daysSinceConversion |-> daysSinceConversion(stats, at),
          lastWeek |-> stats.lastWeek]
    ELSE [name |-> stats.name,
          change |-> calculateChange(stats.thisWeek, stats.lastWeek).percent,
          thisWeek |-> stats.thisWeek, lastWeek |-> stats.lastWeek]

\* Object.entries(creatorStats): integer keys come in ascending order.
RECURSIVE Entries(_)
Entries(ids) ==
    IF ids = {} THEN <<>>
    ELSE LET least == CHOOSE i \in ids : \A j \in ids : i <= j
         IN  <<least>> \o Entries(ids \ {least})

\* Array.prototype.sort with (a, b) => sign * (b[field] - a[field]): stable.
RECURSIVE SortBy(_, _, _)
SortBy(list, field, sign) ==
    IF Len(list) <= 1 THEN list
    ELSE LET sorted == SortBy(SubSeq(list, 1, Len(list) - 1), field, sign)
             x == list[Len(list)]
             ahead == { i \in 1..Len(sorted) :
                          \A j \in 1..i : sign * sorted[j][field] >= sign * x[field] }
             n == Cardinality(ahead)
         IN  SubSeq(sorted, 1, n) \o <<x>> \o SubSeq(sorted, n + 1, Len(sorted))

\* slice(0, 5)
Slice(list, n) == SubSeq(list, 1, IF Len(list) < n THEN Len(list) ELSE n)

\* Mutant of creatorMomentum: the lists cut to 5 before they are sorted.
creatorMomentumCutFirst(perDay, at) ==
    LET order == Entries({ g.influencer_id : g \in perDay })
        stat(i) == creatorStats(perDay, order[i], at)
        pushed(bucket) ==
            LET at_ == { i \in 1..Len(order) : InBucket(stat(i), at, bucket) }
                RECURSIVE Pick(_)
                Pick(i) == IF i > Len(order) THEN <<>>
                           ELSE (IF i \in at_ THEN <<MomentumEntry(stat(i), at, bucket)>> ELSE <<>>)
                                \o Pick(i + 1)
            IN  Pick(1)
    IN  [rising |-> SortBy(Slice(pushed("rising"), TopCreators), "change", 1),
         cooling |-> SortBy(Slice(pushed("cooling"), TopCreators), "change", -1),
         stalled |-> SortBy(Slice(pushed("stalled"), TopCreators), "daysSinceConversion", 1)]

\* trends.creatorMomentum
creatorMomentum(perDay, at) ==
    LET order == Entries({ g.influencer_id : g \in perDay })
        stat(i) == creatorStats(perDay, order[i], at)
        pushed(bucket) ==
            LET at_ == { i \in 1..Len(order) : InBucket(stat(i), at, bucket) }
                RECURSIVE Pick(_)
                Pick(i) == IF i > Len(order) THEN <<>>
                           ELSE (IF i \in at_ THEN <<MomentumEntry(stat(i), at, bucket)>> ELSE <<>>)
                                \o Pick(i + 1)
            IN  Pick(1)
    IN  [rising |-> Slice(SortBy(pushed("rising"), "change", 1), TopCreators),
         cooling |-> Slice(SortBy(pushed("cooling"), "change", -1), TopCreators),
         stalled |-> Slice(SortBy(pushed("stalled"), "daysSinceConversion", 1), TopCreators)]

\* The object calculateHistoricalTrends starts from, and returns when a query
\* threw: the catch logs and the function returns `trends` as it stands.
DefaultTrends(rows, at) ==
    [called |-> TRUE, now |-> at, rows |-> rows, failed |-> TRUE,
     weekly |-> NoComparison, monthly |-> NoComparison, yearly |-> NoComparison,
     creatorMomentum |-> [rising |-> <<>>, cooling |-> <<>>, stalled |-> <<>>]]

\* calculateHistoricalTrends(sql, userIds) called at time `at` on a history
\* store that answers (up) or throws.
calculateHistoricalTrends(rows, at, up) ==
    IF ~up THEN DefaultTrends(rows, at)
    ELSE LET history == conversionHistory(rows)
         IN  [called |-> TRUE, now |-> at, rows |-> rows, failed |-> FALSE,
              weekly |-> Comparison(history, at, 7),
              monthly |-> Comparison(history, at, 30),
              yearly |-> Comparison(history, at, 365),
              creatorMomentum |-> creatorMomentum(influencerHistory(rows, at), at)]

NoTrends == [called |-> FALSE]

\* One call of calculateHistoricalTrends on the tenant's history.
CalculateHistoricalTrends(at, up) ==
    /\ trends' = calculateHistoricalTrends(stats_history, at, up)
    /\ UNCHANGED <<pc, influencers, data, briefing, response, task, inserted,
                   benchmark_data, benchmarks, now, refresh, lookup,
                   ai_briefings, sql, stats_history, call>>

(***************************************************************************)
(* The tenant's rows.  channel_url is modelled by the set of platform      *)
(* words the lower-cased url contains: that is all the code reads of it.   *)
(***************************************************************************)
Creator(url, price, conversions, views, clicks, content_count, daysSinceAdded) ==
    [channel_url |-> url, price |-> price, conversions |-> conversions,
     views |-> views, clicks |-> clicks, content_count |-> content_count,
     daysSinceAdded |-> daysSinceAdded]

CreatorKinds ==
    { Creator({"youtube"}, 900, 2, 1000, 0, 1, 30),
      Creator({"youtube", "tiktok"}, 6000, 0, 0, 4, 0, 30),
      Creator({"tiktok"}, 0, 0, 500, 0, 2, 0),
      Creator({"kick"}, 100, 1, 0, 1, 0, 3) }

RECURSIVE SeqsUpTo(_, _)
SeqsUpTo(S, n) ==
    IF n = 0 THEN { <<>> }
    ELSE LET shorter == SeqsUpTo(S, n - 1)
         IN  shorter \cup { Append(s, x) : s \in { t \in shorter : Len(t) = n - 1 }, x \in S }

\* Every tenant the briefing request is tried on.
Tenants == SeqsUpTo(CreatorKinds, MaxCreators)

\* toLowerCase, on the platform names the program uses.
ToLowerCase(name) ==
    CASE name = "YouTube" -> "youtube"
      [] name = "TikTok" -> "tiktok"
      [] name = "Instagram" -> "instagram"
      [] name = "Twitch" -> "twitch"
      [] name = "Kick" -> "kick"
      [] name = "Other" -> "other"
      [] OTHER -> name

\* getUserData, platform breakdown: the first word of the chain the url contains.
PlatformOf(inf) ==
    LET url == inf.channel_url
    IN  IF "youtube" \in url THEN "YouTube"
        ELSE IF "tiktok" \in url THEN "TikTok"
        ELSE IF "instagram" \in url THEN "Instagram"
        ELSE IF "twitch" \in url THEN "Twitch"
        ELSE IF "kick" \in url THEN "Kick"
        ELSE "Other"

\* One pass of the loop that builds `platforms`: entries keep insertion order,
\* as Object.entries / Object.keys return them.
AddToPlatforms(entries, inf) ==
    LET p == PlatformOf(inf)
        at == { i \in 1..Len(entries) : entries[i].platform = p }
    IN  IF at = {}
        THEN Append(entries, [platform |-> p, count |-> 1, spent |-> inf.price,
                              conversions |-> inf.conversions, views |-> inf.views,
                              clicks |-> inf.clicks])
        ELSE [ i \in 1..Len(entries) |->
                 IF i \in at
                 THEN [entries[i] EXCEPT !.count = @ + 1,
                                         !.spent = @ + inf.price,
                                         !.conversions = @ + inf.conversions,
                                         !.views = @ + inf.views,
                                         !.clicks = @ + inf.clicks]
                 ELSE entries[i] ]

RECURSIVE PlatformBreakdown(_)
PlatformBreakdown(infs) ==
    IF infs = <<>> THEN <<>>
    ELSE AddToPlatforms(PlatformBreakdown(SubSeq(infs, 1, Len(infs) - 1)), infs[Len(infs)])

\* reduce((sum, i) => sum + (Number(i[field]) || 0), 0) over the tenant's rows.
RECURSIVE SumColumn(_, _)
SumColumn(infs, field) ==
    IF infs = <<>> THEN 0
    ELSE infs[Len(infs)][field] + SumColumn(SubSeq(infs, 1, Len(infs) - 1), field)

\* Creators paid for, without content, added 7 days ago or more.
noContent(infs) ==
    LET pending(i) == i.price > 0 /\ i.content_count = 0 /\ i.daysSinceAdded >= 7
    IN  SelectSeq(infs, pending)

\* Creators paid for, with content, without a conversion.
noConversions(infs) ==
    LET idle(i) == i.content_count # 0 /\ i.price > 0 /\ i.conversions = 0
    IN  SelectSeq(infs, idle)

\* The database a request reaches: whether getDb() gets a connection at all,
\* whether the benchmark tables, the history tables and the query on table
\* influencers answer or throw, and the number of rows of the tenant in
\* `campaigns`.
HealthyDb == [configured |-> TRUE, benchmarks |-> TRUE, history |-> TRUE,
              influencers |-> TRUE, campaigns |-> 1]

\* let influencers = []; try { ... } catch (e) { console.error(...) }: the rows
\* the query returned, or none when it threw.
influencersRead(infs, db) == IF db.influencers THEN infs ELSE <<>>

\* getUserData: the fields the briefing, the score and the benchmark path read.
getUserData(infs, db, history, at) ==
    LET rows == influencersRead(infs, db)
    IN  [influencers |-> rows,
         totals |-> [campaigns |-> db.campaigns,
                     influencers |-> Len(rows),
                     totalSpent |-> SumColumn(rows, "price"),
                     totalConversions |-> SumColumn(rows, "conversions"),
                     totalViews |-> SumColumn(rows, "views"),
                     totalClicks |-> SumColumn(rows, "clicks")],
         noContent |-> noContent(rows),
         noConversions |-> noConversions(rows),
         platforms |-> PlatformBreakdown(rows),
         historicalTrends |-> calculateHistoricalTrends(history, at, db.history)]

NoData == [influencers |-> <<>>, platforms |-> <<>>]

(***************************************************************************)
(* The health score: calculateScore of lib/score.js.  An issue is the kind *)
(* of its message and whether its wording is the one that cites the        *)
(* benchmark.                                                              *)
(***************************************************************************)
\* Number(v) || fallback
OrElse(v, fallback) == IF IsNull(v) \/ v[1] = 0 THEN fallback ELSE v

\* Math.ceil
MathCeil(v) == -((-v[1]) \div v[2])

\* getDynamicThresholds(benchmarks)
getDynamicThresholds(b) ==
    [cpaExcellent |-> OrElse(b.cpa_p25, Whole(15)),
     cpaGood |-> OrElse(b.cpa_p50, Whole(30)),
     cpaConcern |-> OrElse(b.cpa_p75, Whole(60)),
     cpaCritical |-> RatMul(OrElse(b.cpa_p50, Whole(30)), Whole(2)),
     contentDeliveryGood |-> OrElse(b.content_delivery_rate_p50, Whole(80)),
     contentDeliveryPoor |-> RatMul(OrElse(b.content_delivery_rate_p50, Whole(80)), Rat(6, 10)),
     contentDeadlineDays |->
         MathCeil(RatDiv(RatSub(Whole(100), OrElse(b.content_delivery_rate_p50, Whole(80))),
                         Whole(10))) + 7,
     viewsPerDollarGood |-> OrElse(b.views_per_dollar_p50, Whole(200))]

\* getDefaultThresholds()
getDefaultThresholds ==
    [cpaExcellent |-> Whole(15),
     cpaGood |-> Whole(30),
     cpaConcern |-> Whole(60),
     cpaCritical |-> Whole(60),
     contentDeliveryGood |-> Whole(80),
     contentDeliveryPoor |-> Whole(50),
     contentDeadlineDays |-> 7,
     viewsPerDollarGood |-> Whole(200)]

\* calculateScore called with benchmarks = null.
NoBenchmarks == [segment |-> <<>>, sample_size |-> 0]

\* const hasBenchmarkData = benchmarks?.sample_size > 0
hasBenchmarkData(b) == b.sample_size > 0

Issue(kind, cites) == [kind |-> kind, wording |-> IF cites THEN "benchmark" ELSE "plain"]

NoPenalty == [points |-> 0, issues |-> <<>>, insights |-> <<>>]

Penalty(points, issue) == [points |-> points, issues |-> <<issue>>, insights |-> <<>>]

\* const cpa = totals.totalConversions > 0 ? totalSpent / totalConversions : null
ScoreCpa(d) ==
    IF d.totals.totalConversions > 0
    THEN JsDiv(Whole(d.totals.totalSpent), Whole(d.totals.totalConversions))
    ELSE Null

\* ((influencers.length - noContent.length) / influencers.length) * 100
contentDeliveryRate(d) ==
    IF Len(d.influencers) > 0
    THEN JsMul(JsDiv(Whole(Len(d.influencers) - Len(d.noContent)), Whole(Len(d.influencers))),
               Whole(100))
    ELSE Whole(100)

\* const viewsPerDollar = totals.totalSpent > 0 ? totalViews / totalSpent : 0
viewsPerDollar(d) ==
    IF d.totals.totalSpent > 0
    THEN JsDiv(Whole(d.totals.totalViews), Whole(d.totals.totalSpent))
    ELSE Whole(0)

\* const wasteRatio = totals.totalSpent > 0 ? wastedSpend / totals.totalSpent : 0
wasteRatio(d) ==
    LET wastedSpend == SumColumn(d.noConversions, "price")
    IN  IF d.totals.totalSpent > 0
        THEN JsDiv(Whole(wastedSpend), Whole(d.totals.totalSpent))
        ELSE Whole(0)

\* Mutant of CpaPenalty: spend without conversions is penalised only above 5000.
CpaPenaltyLargeSpendOnly(d, b, thresholds) ==
    LET cpa == ScoreCpa(d)
    IN  IF ~IsNull(cpa) /\ d.totals.totalSpent > 500
        THEN IF RatLt(thresholds.cpaCritical, cpa)
             THEN Penalty(30, Issue("cpa_critical", hasBenchmarkData(b)))
             ELSE IF RatLt(thresholds.cpaConcern, cpa)
             THEN Penalty(20, Issue("cpa_high", hasBenchmarkData(b)))
             ELSE IF RatLt(thresholds.cpaGood, cpa)
             THEN Penalty(10, Issue("cpa_could_improve", FALSE))
             ELSE NoPenalty
        ELSE IF d.totals.totalSpent > 5000 /\ d.totals.totalConversions = 0
        THEN Penalty(30, Issue("no_conversions_despite_spend", FALSE))
        ELSE NoPenalty

\* 1. CPA Performance (max -30 points)
CpaPenalty(d, b, thresholds) ==
    LET cpa == ScoreCpa(d)
    IN  IF ~IsNull(cpa) /\ d.totals.totalSpent > 500
        THEN IF RatLt(thresholds.cpaCritical, cpa)
             THEN Penalty(30, Issue("cpa_critical", hasBenchmarkData(b)))
             ELSE IF RatLt(thresholds.cpaConcern, cpa)
             THEN Penalty(20, Issue("cpa_high", hasBenchmarkData(b)))
             ELSE IF RatLt(thresholds.cpaGood, cpa)
             THEN Penalty(10, Issue("cpa_could_improve", FALSE))
             ELSE IF RatLeq(cpa, thresholds.cpaExcellent)
             THEN [points |-> 0, issues |-> <<>>,
                   insights |-> <<Issue("cpa_excellent", hasBenchmarkData(b))>>]
             ELSE NoPenalty
        ELSE IF d.totals.totalSpent > 500 /\ d.totals.totalConversions = 0
        THEN Penalty(30, Issue("no_conversions_despite_spend", FALSE))
        ELSE NoPenalty

\* 2. Content Delivery (max -25 points)
ContentPenalty(d, thresholds) ==
    LET rate == contentDeliveryRate(d)
        shortfall == MathRound(RatDiv(RatSub(thresholds.contentDeliveryGood, rate), Whole(2)))
    IN  IF Len(d.noContent) > 0
        THEN IF RatLt(rate, thresholds.contentDeliveryPoor)
             THEN Penalty(25, Issue("only_part_delivered", FALSE))
             ELSE IF RatLt(rate, thresholds.contentDeliveryGood)
             THEN Penalty(IF shortfall < 15 THEN shortfall ELSE 15,
                          Issue("not_delivered_yet", FALSE))
             ELSE NoPenalty
        ELSE NoPenalty

\* 3. Spend Efficiency (max -20 points)
WastePenalty(d) ==
    LET ratio == wasteRatio(d)
    IN  IF RatLt(Rat(5, 10), ratio)
        THEN Penalty(20, Issue("over_half_wasted", FALSE))
        ELSE IF RatLt(Rat(3, 10), ratio)
        THEN Penalty(15, Issue("significant_waste", FALSE))
        ELSE IF RatLt(Rat(1, 10), ratio)
        THEN [points |-> 10, issues |-> <<>>, insights |-> <<>>]
        ELSE NoPenalty

\* 4. Platform Diversification (max -15 points)
PlatformPenalty(d) ==
    LET count == Len(d.platforms)
        convertingPlatforms ==
            Cardinality({ i \in 1..Len(d.platforms) : d.platforms[i].conversions > 0 })
    IN  IF count > 1 /\ convertingPlatforms = 1
        THEN Penalty(10, Issue("one_platform_converting", FALSE))
        ELSE IF count > 2 /\ convertingPlatforms = 0
        THEN Penalty(15, Issue("no_platform_converting", FALSE))
        ELSE NoPenalty

\* Mutant of ActivityPenalty: the 10 points the comment of the block announces.
ActivityPenaltyTen(d) ==
    IF Len(d.influencers) < 3 /\ d.totals.campaigns > 0
    THEN Penalty(10, Issue("few_creators", FALSE))
    ELSE NoPenalty

\* 5. Activity
ActivityPenalty(d) ==
    IF Len(d.influencers) < 3 /\ d.totals.campaigns > 0
    THEN Penalty(5, Issue("few_creators", FALSE))
    ELSE NoPenalty

\* Math.max(0, Math.min(100, score))
Clamp(score) == IF score < 0 THEN 0 ELSE IF score > 100 THEN 100 ELSE score

\* calculateScore(data, benchmarks): the score, the issues and the insights; the
\* field `deducted` keeps the points each block took off.
calculateScore(d, b) ==
    IF Len(d.influencers) = 0
    THEN [score |-> 50, issues |-> <<>>, insights |-> <<>>,
          deducted |-> [cpa |-> 0, content |-> 0, waste |-> 0, platforms |-> 0,
                        activity |-> 0],
          thresholds |-> getDefaultThresholds]
    ELSE LET thresholds == IF hasBenchmarkData(b) THEN getDynamicThresholds(b)
                           ELSE getDefaultThresholds
             cpa == CpaPenalty(d, b, thresholds)
             content == ContentPenalty(d, thresholds)
             waste == WastePenalty(d)
             platforms == PlatformPenalty(d)
             activity == ActivityPenalty(d)
         IN  [score |-> Clamp(100 - cpa.points - content.points - waste.points
                                  - platforms.points - activity.points),
              issues |-> cpa.issues \o content.issues \o waste.issues
                         \o platforms.issues \o activity.issues,
              insights |-> cpa.insights,
              deducted |-> [cpa |-> cpa.points, content |-> content.points,
                            waste |-> waste.points, platforms |-> platforms.points,
                            activity |-> activity.points],
              thresholds |-> thresholds]

\* One call of calculateScore.
CalculateScore(d, b) ==
    /\ call' = [fn |-> "calculateScore", args |-> <<d, b>>, result |-> calculateScore(d, b)]
    /\ UNCHANGED <<pc, influencers, data, briefing, response, task, inserted,
                   benchmark_data, benchmarks, now, refresh, lookup,
                   ai_briefings, sql, stats_history, trends>>

(***************************************************************************)
(* contributeToBenchmarks.                                                 *)
(***************************************************************************)
Metrics == {"cpa", "cpc", "cpm", "conversion_rate", "content_delivery_rate",
            "views_per_dollar"}

MinPlatforms == 2
MinCreators == 5
MinPlatformCreators == 3
SmallBelow == 1000
MediumBelow == 5000

majorPlatforms == {"youtube", "tiktok", "instagram", "twitch"}

\* Math.random() is drawn in thousandths: noise = 0.9 + random * 0.2 lies in
\* [0.900, 1.100), that is NoiseMin/NoiseUnit .. (NoiseEnd - 1)/NoiseUnit.
NoiseUnit == 1000
NoiseMin == 900
NoiseEnd == 1100

NoiseFactors == NoiseMin .. (NoiseEnd - 1)

\* The draws the model tries for one insert: one factor per metric, each metric
\* drawing on its own.
NoiseDraws ==
    { [m \in Metrics |-> NoiseMin],
      [m \in Metrics |-> NoiseEnd - 1],
      [m \in Metrics |-> IF m \in {"cpa", "cpm", "content_delivery_rate"}
                         THEN NoiseMin + 50 ELSE NoiseEnd - 49] }

\* Mutant of addNoise: the variance doubled, 0.8 + random * 0.4.
addNoiseWide(val, factor) ==
    IF IsNull(val) THEN Null
    ELSE RatMul(val, Rat(2 * factor - NoiseUnit, NoiseUnit))

\* const addNoise = (val) => val === null ? null : val * noise
addNoise(val, factor) ==
    IF IsNull(val) THEN Null ELSE JsMul(val, Rat(factor, NoiseUnit))

\* const roundTo = (val, precision) => val === null ? null
\*                                     : Math.round(val / precision) * precision
roundTo(val, precision) ==
    IF IsNull(val) THEN Null
    ELSE IF ~ IsFinite(val) THEN val
    ELSE RatMul(Whole(MathRound(RatDiv(val, precision))), precision)

\* The bucket width each stored metric is rounded to.
Precision(m) ==
    CASE m = "cpa" -> Whole(5)
      [] m = "cpc" -> Rat(1, 10)
      [] m = "cpm" -> Whole(1)
      [] m = "conversion_rate" -> Rat(1, 10000)
      [] m = "content_delivery_rate" -> Whole(5)
      [] m = "views_per_dollar" -> Whole(10)

\* Object.keys(platforms).filter(p => platforms[p].count > 0).length
platformCount(d) ==
    Cardinality({ i \in 1..Len(d.platforms) : d.platforms[i].count > 0 })

\* Mutant of GatePasses: the early return taken only when both tests fail.
GatePassesEither(d) ==
    ~ (platformCount(d) < MinPlatforms /\ Len(d.influencers) < MinCreators)

\* The guard of the early return: too unique, nothing is contributed.
GatePasses(d) ==
    ~ (platformCount(d) < MinPlatforms \/ Len(d.influencers) < MinCreators)

\* const avgPrice = stats.spent / stats.count
avgPrice(stats) == JsDiv(Whole(stats.spent), Whole(stats.count))

\* Mutant of priceTier: the platform's total spend compared, not the average.
priceTierOfTotal(stats) ==
    IF stats.spent < SmallBelow THEN "small"
    ELSE IF stats.spent < MediumBelow THEN "medium"
    ELSE "large"

\* priceTier, from avgPrice = stats.spent / stats.count
priceTier(stats) ==
    IF JsLess(avgPrice(stats), SmallBelow) THEN "small"
    ELSE IF JsLess(avgPrice(stats), MediumBelow) THEN "medium"
    ELSE "large"

\* platformCreators: the influencers whose url includes the platform's name.
platformCreators(d, platform) ==
    { i \in 1..Len(d.influencers) :
        ToLowerCase(platform) \in d.influencers[i].channel_url }

\* Mutant of PreNoise: viewsPerDollar divides without looking at stats.spent.
PreNoiseSpendUnchecked(d, stats) ==
    LET creators == platformCreators(d, stats.platform)
        withContent == { i \in creators : d.influencers[i].content_count > 0 }
    IN  [cpa |-> IF stats.conversions > 0
                 THEN JsDiv(Whole(stats.spent), Whole(stats.conversions)) ELSE Null,
         cpc |-> IF stats.clicks > 0
                 THEN JsDiv(Whole(stats.spent), Whole(stats.clicks)) ELSE Null,
         cpm |-> IF stats.views > 0
                 THEN JsMul(JsDiv(Whole(stats.spent), Whole(stats.views)), Whole(1000))
                 ELSE Null,
         conversion_rate |-> IF stats.views > 0
                             THEN JsDiv(Whole(stats.conversions), Whole(stats.views))
                             ELSE Null,
         content_delivery_rate |->
             IF Cardinality(creators) > 0
             THEN JsMul(JsDiv(Whole(Cardinality(withContent)), Whole(Cardinality(creators))),
                        Whole(100))
             ELSE Null,
         views_per_dollar |-> JsDiv(Whole(stats.views), Whole(stats.spent))]

\* The derived ratios of one platform entry, before noise: each division is
\* made only when its denominator is above zero, else the ratio is null.
PreNoise(d, stats) ==
    LET creators == platformCreators(d, stats.platform)
        withContent == { i \in creators : d.influencers[i].content_count > 0 }
    IN  [cpa |-> IF stats.conversions > 0
                 THEN JsDiv(Whole(stats.spent), Whole(stats.conversions)) ELSE Null,
         cpc |-> IF stats.clicks > 0
                 THEN JsDiv(Whole(stats.spent), Whole(stats.clicks)) ELSE Null,
         cpm |-> IF stats.views > 0
                 THEN JsMul(JsDiv(Whole(stats.spent), Whole(stats.views)), Whole(1000))
                 ELSE Null,
         conversion_rate |-> IF stats.views > 0
                             THEN JsDiv(Whole(stats.conversions), Whole(stats.views))
                             ELSE Null,
         content_delivery_rate |->
             IF Cardinality(creators) > 0
             THEN JsMul(JsDiv(Whole(Cardinality(withContent)), Whole(Cardinality(creators))),
                        Whole(100))
             ELSE Null,
         views_per_dollar |-> IF stats.spent > 0
                              THEN JsDiv(Whole(stats.views), Whole(stats.spent))
                              ELSE Null]

\* Mutant of Contributes: the allow-list of major platforms not consulted.
ContributesAnyPlatform(d, stats) ==
    /\ ~ (stats.count < MinPlatformCreators)
    /\ LET pre == PreNoise(d, stats)
       IN  ~ IsNull(pre.cpa) \/ ~ IsNull(pre.conversion_rate)

\* The two `continue`s and the `if` around the INSERT: does the loop reach the
\* INSERT for this entry?
Contributes(d, stats) ==
    /\ ~ (stats.count < MinPlatformCreators)
    /\ ToLowerCase(stats.platform) \in majorPlatforms
    /\ LET pre == PreNoise(d, stats)
       IN  ~ IsNull(pre.cpa) \/ ~ IsNull(pre.conversion_rate)

\* The VALUES of the INSERT; recorded_at is the column's DEFAULT NOW().
ContributionRow(d, stats, noise, at) ==
    LET pre == PreNoise(d, stats)
        stored(m) == roundTo(addNoise(pre[m], noise[m]), Precision(m))
    IN  [platform |-> stats.platform,
         price_tier |-> priceTier(stats),
         cpa |-> stored("cpa"),
         cpc |-> stored("cpc"),
         cpm |-> stored("cpm"),
         conversion_rate |-> stored("conversion_rate"),
         content_delivery_rate |-> stored("content_delivery_rate"),
         views_per_dollar |-> stored("views_per_dollar"),
         recorded_at |-> at]

\* The next entry after position i at which the loop reaches an INSERT, or 0
\* when the loop runs to its end without one.
NextInsert(d, i) ==
    LET later == { j \in (i + 1)..Len(d.platforms) : Contributes(d, d.platforms[j]) }
    IN  IF later = {} THEN 0 ELSE CHOOSE j \in later : \A k \in later : j <= k

(***************************************************************************)
(* The briefing request (route.js GET, the path that generates a briefing) *)
(* and the contribution task it starts without awaiting it.                *)
(***************************************************************************)
NoTask == [status |-> "none", at |-> 0, attempts |-> 0, failures |-> 0]

NoInsert == [stored |-> FALSE, pre |-> [m \in Metrics |-> Null],
             row |-> [m \in Metrics |-> Null]]

NoResponse == [sent |-> FALSE, success |-> FALSE, cached |-> FALSE, briefing |-> <<>>,
               benchmarks |-> <<>>]

\* generateBriefing: the onboarding briefing for a tenant without creators, else
\* score, summary, metrics and actions, computed from `data` and the benchmarks;
\* summary, metrics and actions are represented by the platform breakdown they
\* are computed from.
generateBriefing(d, b) ==
    IF Len(d.influencers) = 0
    THEN <<[onboarding |-> TRUE, score |-> 50, platforms |-> <<>>]>>
    ELSE <<[onboarding |-> FALSE, score |-> calculateScore(d, b).score,
            platforms |-> d.platforms]>>

\* contributeToBenchmarks(sql, data), up to its first await: the gate, then the
\* loop up to the first INSERT.
StartContribution(d) ==
    IF GatePasses(d) /\ NextInsert(d, 0) # 0
    THEN [status |-> "running", at |-> NextInsert(d, 0), attempts |-> 0, failures |-> 0]
    ELSE [status |-> "done", at |-> 0, attempts |-> 0, failures |-> 0]

\* Mutant of RespondReady: the handler awaits the contribution.
RespondReadyAwaited == pc = "respond" /\ task.status # "running"

\* The handler returns as soon as it has started the contribution: the call's
\* promise gets a .catch and is not awaited.
RespondReady == pc = "respond"

\* The rest of the loop after the INSERT at entry task.at settled: its catch
\* swallows a failure and the loop goes on to the next entry.
AfterInsert(d, t, ok) ==
    LET next == NextInsert(d, t.at)
    IN  [status |-> IF next = 0 THEN "done" ELSE "running",
         at |-> next,
         attempts |-> t.attempts + 1,
         failures |-> IF ok THEN t.failures ELSE t.failures + 1]

\* The most rows one call can add: the model stops taking requests that could
\* take the table past MaxRows.
MaxInserts(d) ==
    IF GatePasses(d)
    THEN Cardinality({ i \in 1..Len(d.platforms) : Contributes(d, d.platforms[i]) })
    ELSE 0

Request(tenant, db) ==
    /\ pc = "idle"
    /\ BagCardinality(benchmark_data) + MaxInserts(getUserData(tenant, HealthyDb, {}, 0)) <= MaxRows
    /\ influencers' = tenant
    /\ sql' = db
    /\ pc' = "benchmarks"
    /\ data' = NoData
    /\ briefing' = <<>>
    /\ response' = NoResponse
    /\ task' = NoTask
    /\ inserted' = NoInsert
    /\ UNCHANGED <<benchmark_data, benchmarks, now, refresh, lookup,
                   ai_briefings, stats_history, trends, call>>

ReadData ==
    /\ pc = "read"
    /\ data' = getUserData(influencers, sql, stats_history, now * Day)
    /\ pc' = "generate"
    /\ UNCHANGED <<influencers, briefing, response, task, inserted,
                   benchmark_data, benchmarks, now, refresh, lookup,
                   ai_briefings, sql, stats_history, trends, call>>

Generate ==
    /\ pc = "generate"
    /\ briefing' = generateBriefing(data, lookup.result)
    /\ pc' = "save"
    /\ UNCHANGED <<influencers, data, response, task, inserted,
                   benchmark_data, benchmarks, now, refresh, lookup,
                   ai_briefings, sql, stats_history, trends, call>>

\* Table ai_briefings without a row of the tenant.
NoBriefing == [stored |-> FALSE]

\* saveBriefing: INSERT ... ON CONFLICT (user_id) DO UPDATE, the row expiring
\* 24 hours after NOW().
saveBriefing(generated, at) ==
    [stored |-> TRUE, briefing |-> generated, generated_at |-> at, expires_at |-> at + 1]

\* if (briefing) { await saveBriefing(...); contributeToBenchmarks(...) }: the
\* briefing generateBriefing returned is an object in every case.
SaveAndContribute ==
    /\ pc = "save"
    /\ ai_briefings' = saveBriefing(briefing, now)
    /\ task' = StartContribution(data)
    /\ pc' = "respond"
    /\ UNCHANGED <<influencers, data, briefing, response, inserted,
                   benchmark_data, benchmarks, now, refresh, lookup,
                   sql, stats_history, trends, call>>

Respond ==
    /\ RespondReady
    /\ response' = [sent |-> TRUE, success |-> TRUE, cached |-> FALSE,
                    briefing |-> briefing,
                    benchmarks |-> [cpa_p50 |-> lookup.result.cpa_p50,
                                    sample_size |-> lookup.result.sample_size]]
    /\ pc' = "done"
    /\ UNCHANGED <<influencers, data, briefing, task, inserted,
                   benchmark_data, benchmarks, now, refresh, lookup,
                   ai_briefings, sql, stats_history, trends, call>>

\* The INSERT the task awaits settles: the store took the row, or threw.
InsertSettles(noise, ok) ==
    /\ task.status = "running"
    /\ LET stats == data.platforms[task.at]
           row == ContributionRow(data, stats, noise, now)
       IN  /\ benchmark_data' = IF ok THEN benchmark_data (+) SetToBag({row})
                                ELSE benchmark_data
           /\ inserted' = IF ok
                          THEN [stored |-> TRUE, pre |-> PreNoise(data, stats), row |-> row]
                          ELSE inserted
    /\ task' = AfterInsert(data, task, ok)
    /\ UNCHANGED <<pc, influencers, data, briefing, response,
                   benchmarks, now, refresh, lookup,
                   ai_briefings, sql, stats_history, trends, call>>

\* The task's promise rejects (something threw outside the loop's try): the
\* .catch the handler attached logs it.
ContributionRejects ==
    /\ task.status = "running"
    /\ task' = [task EXCEPT !.status = "rejected"]
    /\ UNCHANGED <<pc, influencers, data, briefing, response, inserted,
                   benchmark_data, benchmarks, now, refresh, lookup,
                   ai_briefings, sql, stats_history, trends, call>>

(***************************************************************************)
(* The percentile engine: refreshBenchmarks, computeSegmentBenchmarks.      *)
(* A segment name is the pair of the two words its template joins with a   *)
(* colon: <<"platform", "YouTube">> is 'platform:YouTube', <<"YouTube",    *)
(* "micro">> is 'YouTube:micro', and <<"overall">> is 'overall'.  A filter *)
(* a call does not give is the empty string.                               *)
(***************************************************************************)
WindowDays == 90
MinSample == 10

Segment(name, platform, price_tier) ==
    [name |-> name, platform |-> platform, price_tier |-> price_tier]

RefreshPlatforms == <<"YouTube", "TikTok", "Instagram", "Twitch", "Kick">>
RefreshTiers == <<"micro", "mid", "macro", "mega">>
ComboPlatforms == <<"YouTube", "TikTok", "Instagram">>
ComboTiers == <<"micro", "mid", "macro">>

\* The calls of computeSegmentBenchmarks, in the order refreshBenchmarks makes them.
RefreshSegments ==
    <<Segment(<<"overall">>, "", "")>>
    \o [ i \in 1..Len(RefreshPlatforms) |->
           Segment(<<"platform", RefreshPlatforms[i]>>, RefreshPlatforms[i], "") ]
    \o [ i \in 1..Len(RefreshTiers) |->
           Segment(<<"tier", RefreshTiers[i]>>, "", RefreshTiers[i]) ]
    \o [ k \in 1..(Len(ComboPlatforms) * Len(ComboTiers)) |->
           LET p == ComboPlatforms[((k - 1) \div Len(ComboTiers)) + 1]
               t == ComboTiers[((k - 1) % Len(ComboTiers)) + 1]
           IN  Segment(<<p, t>>, p, t) ]

\* WHERE recorded_at > NOW() - INTERVAL '90 days'
InWindow(row, at) == row.recorded_at > at - WindowDays

\* Mutant of RowMatches: the 90 day condition left out of the WHERE clause.
RowMatchesAnyAge(row, filters, at) ==
    /\ filters.platform # "" => row.platform = filters.platform
    /\ filters.price_tier # "" => row.price_tier = filters.price_tier

\* The whole WHERE clause computeSegmentBenchmarks builds from its filters.
RowMatches(row, filters, at) ==
    /\ InWindow(row, at)
    /\ filters.platform # "" => row.platform = filters.platform
    /\ filters.price_tier # "" => row.price_tier = filters.price_tier

Matching(table, filters, at) ==
    { r \in BagToSet(table) : RowMatches(r, filters, at) }

RECURSIVE CopiesOf(_, _)
CopiesOf(R, table) ==
    IF R = {} THEN 0
    ELSE LET r == CHOOSE x \in R : TRUE
         IN  CopiesIn(r, table) + CopiesOf(R \ {r}, table)

\* COUNT(*)
SampleSize(table, filters, at) == CopiesOf(Matching(table, filters, at), table)

\* The non-null values of a column over the matching rows, ascending, each as
\* often as it occurs: what WITHIN GROUP (ORDER BY column) aggregates.
RECURSIVE Ascending(_, _, _, _)
Ascending(values, R, column, table) ==
    IF values = {} THEN <<>>
    ELSE LET least == CHOOSE v \in values : \A w \in values : RatLeq(v, w)
             times == CopiesOf({ r \in R : r[column] = least }, table)
         IN  [ i \in 1..times |-> least ]
             \o Ascending(values \ {least}, R, column, table)

Ordered(table, filters, at, column) ==
    LET R == Matching(table, filters, at)
    IN  Ascending({ r[column] : r \in { x \in R : ~ IsNull(x[column]) } }, R, column, table)

\* Mutant of PercentileCont: the fraction taken from the top of the order.
PercentileContFromTop(ordered, num, den) ==
    IF Len(ordered) = 0 THEN Null
    ELSE LET rank == Rat((den - num) * (Len(ordered) - 1), den)
             lo == rank[1] \div rank[2]
             hi == IF lo * rank[2] = rank[1] THEN lo ELSE lo + 1
             part == RatSub(rank, Whole(lo))
         IN  RatAdd(ordered[lo + 1],
                    RatMul(part, RatSub(ordered[hi + 1], ordered[lo + 1])))

\* PERCENTILE_CONT(num/den): linear interpolation between the two closest ranks
\* of the ordered non-null values; null when there is none.
PercentileCont(ordered, num, den) ==
    IF Len(ordered) = 0 THEN Null
    ELSE LET rank == Rat(num * (Len(ordered) - 1), den)
             lo == rank[1] \div rank[2]
             hi == IF lo * rank[2] = rank[1] THEN lo ELSE lo + 1
             part == RatSub(rank, Whole(lo))
         IN  RatAdd(ordered[lo + 1],
                    RatMul(part, RatSub(ordered[hi + 1], ordered[lo + 1])))

\* A value stored into a DECIMAL(p, scale) column is rounded to `scale` places.
RECURSIVE Pow10(_)
Pow10(k) == IF k = 0 THEN 1 ELSE 10 * Pow10(k - 1)

ToDecimal(v, scale) ==
    IF IsNull(v) THEN Null
    ELSE Rat(MathRound(RatMul(v, Whole(Pow10(scale)))), Pow10(scale))

\* The row the SELECT of computeSegmentBenchmarks returns, as the upsert stores
\* it in the columns of table benchmarks.
SegmentStats(table, seg, at) ==
    LET col(c) == Ordered(table, seg, at, c)
    IN  [segment |-> seg.name,
         sample_size |-> SampleSize(table, seg, at),
         cpa_p25 |-> ToDecimal(PercentileCont(col("cpa"), 1, 4), 2),
         cpa_p50 |-> ToDecimal(PercentileCont(col("cpa"), 1, 2), 2),
         cpa_p75 |-> ToDecimal(PercentileCont(col("cpa"), 3, 4), 2),
         cpc_p50 |-> ToDecimal(PercentileCont(col("cpc"), 1, 2), 2),
         cpm_p50 |-> ToDecimal(PercentileCont(col("cpm"), 1, 2), 2),
         conversion_rate_p50 |-> ToDecimal(PercentileCont(col("conversion_rate"), 1, 2), 6),
         content_delivery_rate_p50 |->
             ToDecimal(PercentileCont(col("content_delivery_rate"), 1, 2), 2),
         views_per_dollar_p50 |-> ToDecimal(PercentileCont(col("views_per_dollar"), 1, 2), 2),
         updated_at |-> at]

\* Mutant of EnoughSamples: the minimum sample itself not accepted.
MoreThanMinSample(stats) == stats.sample_size > MinSample

\* if (stats[0]?.sample_size >= 10)
EnoughSamples(stats) == stats.sample_size >= MinSample

\* INSERT ... ON CONFLICT (segment) DO UPDATE: the row of the segment is
\* inserted or wholly replaced.
Upsert(table, row) ==
    [ s \in DOMAIN table \cup {row.segment} |-> IF s = row.segment THEN row ELSE table[s] ]

\* Mutant of computeSegmentBenchmarks: a segment whose sample no longer
\* suffices loses its row.
computeSegmentBenchmarksDropping(table, contributions, seg, at, outcome) ==
    LET stats == SegmentStats(contributions, seg, at)
    IN  IF outcome # "ok" THEN table
        ELSE IF EnoughSamples(stats) THEN Upsert(table, stats)
        ELSE [ s \in DOMAIN table \ {seg.name} |-> table[s] ]

\* computeSegmentBenchmarks: what becomes of table benchmarks.  The SELECT
\* throws, or it returns and the upsert, when the sample suffices, throws or
\* stores; the catch ends the call either way.
computeSegmentBenchmarks(table, contributions, seg, at, outcome) ==
    LET stats == SegmentStats(contributions, seg, at)
    IN  IF outcome = "ok" /\ EnoughSamples(stats) THEN Upsert(table, stats) ELSE table

NoRefresh == [status |-> "idle", next |-> 1, attempted |-> 0, faulted |-> FALSE,
              outcome |-> "ok"]

\* Mutant of AfterSegment: a failing segment ends the refresh (no try/catch in
\* computeSegmentBenchmarks, the failure reaching the catch of refreshBenchmarks).
AfterSegmentAborting(r, outcome) ==
    IF outcome # "ok"
    THEN [r EXCEPT !.status = "idle", !.faulted = TRUE, !.outcome = outcome]
    ELSE [r EXCEPT !.status = IF r.next = Len(RefreshSegments) THEN "idle" ELSE "running",
                   !.next = @ + 1,
                   !.attempted = @ + 1,
                   !.outcome = outcome]

\* refreshBenchmarks after one call of computeSegmentBenchmarks returned: the
\* call never throws, so the loop goes on to the next segment.
AfterSegment(r, outcome) ==
    [r EXCEPT !.status = IF r.next = Len(RefreshSegments) THEN "idle" ELSE "running",
              !.next = @ + 1,
              !.attempted = @ + 1,
              !.faulted = @ \/ outcome # "ok",
              !.outcome = outcome]

Outcomes == {"ok", "select_throws", "upsert_throws"}

\* The scheduled job starts refreshBenchmarks.
StartRefresh ==
    /\ refresh.status = "idle"
    /\ task.status # "running"
    /\ refresh' = [status |-> "running", next |-> 1, attempted |-> 0, faulted |-> FALSE,
                   outcome |-> "ok"]
    /\ UNCHANGED <<pc, influencers, data, briefing, response, task, inserted,
                   benchmark_data, benchmarks, now, lookup,
                   ai_briefings, sql, stats_history, trends, call>>

\* One call of computeSegmentBenchmarks, for the next segment of the fixed set.
RefreshSegment(outcome) ==
    /\ refresh.status = "running"
    /\ benchmarks' = computeSegmentBenchmarks(benchmarks, benchmark_data,
                                              RefreshSegments[refresh.next], now, outcome)
    /\ refresh' = AfterSegment(refresh, outcome)
    /\ UNCHANGED <<pc, influencers, data, briefing, response, task, inserted,
                   benchmark_data, now, lookup,
                   ai_briefings, sql, stats_history, trends, call>>

\* Time passes: one window length at a time, between the handlers' runs.
Tick ==
    /\ refresh.status = "idle"
    /\ now < MaxTicks * WindowDays
    /\ now' = now + WindowDays
    /\ UNCHANGED <<pc, influencers, data, briefing, response, task, inserted,
                   benchmark_data, benchmarks, refresh, lookup,
                   ai_briefings, sql, stats_history, trends, call>>

\* A briefing request of `tenant` reaches its call of contributeToBenchmarks:
\* the handler's steps up to the call, taken at once.
Contribute(tenant) ==
    /\ task.status # "running"
    /\ refresh.status = "idle"
    /\ BagCardinality(benchmark_data) + MaxInserts(getUserData(tenant, HealthyDb, {}, 0)) <= MaxRows
    /\ influencers' = tenant
    /\ data' = getUserData(tenant, sql, stats_history, now * Day)
    /\ task' = StartContribution(getUserData(tenant, sql, stats_history, now * Day))
    /\ inserted' = NoInsert
    /\ UNCHANGED <<pc, briefing, response, benchmark_data, benchmarks, now, refresh, lookup,
                   ai_briefings, sql, stats_history, trends, call>>

(***************************************************************************)
(* The read path: getBenchmarks.                                           *)
(***************************************************************************)
\* getDefaultBenchmarks
getDefaultBenchmarks ==
    [segment |-> <<"default">>,
     sample_size |-> 0,
     cpa_p25 |-> Whole(15),
     cpa_p50 |-> Whole(30),
     cpa_p75 |-> Whole(60),
     cpc_p50 |-> Rat(1, 2),
     cpm_p50 |-> Whole(5),
     conversion_rate_p50 |-> Rat(1, 1000),
     content_delivery_rate_p50 |-> Whole(80),
     views_per_dollar_p50 |-> Whole(200)]

\* Mutant of LookupOrder: the tier segment tried before the platform segment.
LookupOrderTierFirst(platform, tier) ==
    (IF platform # "" /\ tier # "" THEN << <<platform, tier>> >> ELSE <<>>)
    \o (IF tier # "" THEN << <<"tier", tier>> >> ELSE <<>>)
    \o (IF platform # "" THEN << <<"platform", platform>> >> ELSE <<>>)
    \o << <<"overall">> >>

\* The `segments` array getBenchmarks builds: most specific first.
LookupOrder(platform, tier) ==
    (IF platform # "" /\ tier # "" THEN << <<platform, tier>> >> ELSE <<>>)
    \o (IF platform # "" THEN << <<"platform", platform>> >> ELSE <<>>)
    \o (IF tier # "" THEN << <<"tier", tier>> >> ELSE <<>>)
    \o << <<"overall">> >>

\* The loop over `segments`: the first row found, else the defaults.
getBenchmarks(table, platform, tier) ==
    LET segments == LookupOrder(platform, tier)
        found == { i \in 1..Len(segments) : segments[i] \in DOMAIN table }
    IN  IF found = {} THEN getDefaultBenchmarks
        ELSE table[segments[CHOOSE i \in found : \A j \in found : i <= j]]

NoLookup == [called |-> FALSE, platform |-> "", priceTier |-> "",
             result |-> getDefaultBenchmarks]

\* A caller asks for the benchmarks of a platform and a tier, either optional.
GetBenchmarks(platform, tier) ==
    /\ lookup' = [called |-> TRUE, platform |-> platform, priceTier |-> tier,
                  result |-> getBenchmarks(benchmarks, platform, tier)]
    /\ UNCHANGED <<pc, influencers, data, briefing, response, task, inserted,
                   benchmark_data, benchmarks, now, refresh,
                   ai_briefings, sql, stats_history, trends, call>>

\* Mutant of tryGetBenchmarks: no catch around the lookups.
tryGetBenchmarksUncaught(up, table, platform, tier) ==
    IF up THEN [threw |-> FALSE, value |-> getBenchmarks(table, platform, tier)]
    ELSE [threw |-> TRUE, value |-> getDefaultBenchmarks]

\* getBenchmarks with its try / catch: when a lookup throws (the store is not
\* up) the catch returns the defaults.
tryGetBenchmarks(up, table, platform, tier) ==
    IF up THEN [threw |-> FALSE, value |-> getBenchmarks(table, platform, tier)]
    ELSE [threw |-> FALSE, value |-> getDefaultBenchmarks]

\* GET, from getDb() to `const benchmarks = await getBenchmarks(sql)`: getDb
\* throws without a connection string, and anything thrown goes to the
\* handler's catch.
FetchBenchmarks ==
    /\ pc = "benchmarks"
    /\ LET found == tryGetBenchmarks(sql.benchmarks, benchmarks, "", "")
       IN  IF ~sql.configured \/ found.threw
           THEN /\ pc' = "failed"
                /\ lookup' = lookup
           ELSE /\ pc' = "read"
                /\ lookup' = [called |-> TRUE, platform |-> "", priceTier |-> "",
                              result |-> found.value]
    /\ UNCHANGED <<influencers, data, briefing, response, task, inserted,
                   benchmark_data, benchmarks, now, refresh,
                   ai_briefings, sql, stats_history, trends, call>>

\* The handler's catch: status 500, success false.
RespondError ==
    /\ pc = "failed"
    /\ response' = [sent |-> TRUE, success |-> FALSE, cached |-> FALSE, briefing |-> <<>>,
                    benchmarks |-> <<>>]
    /\ pc' = "done"
    /\ UNCHANGED <<influencers, data, briefing, task, inserted,
                   benchmark_data, benchmarks, now, refresh, lookup,
                   ai_briefings, sql, stats_history, trends, call>>

Init ==
    /\ pc = "idle"
    /\ influencers = <<>>
    /\ data = NoData
    /\ briefing = <<>>
    /\ response = NoResponse
    /\ task = NoTask
    /\ inserted = NoInsert
    /\ benchmark_data = EmptyBag
    /\ benchmarks = [ s \in {} |-> Null ]
    /\ now = 0
    /\ refresh = NoRefresh
    /\ lookup = NoLookup
    /\ sql = HealthyDb
    /\ stats_history = {}
    /\ trends = NoTrends
    /\ call = NoCall
    /\ ai_briefings = NoBriefing

Next ==
    \/ pc = "idle" /\ \E tenant \in Tenants : Request(tenant, HealthyDb)
    \/ FetchBenchmarks
    \/ ReadData
    \/ Generate
    \/ SaveAndContribute
    \/ Respond
    \/ \E noise \in NoiseDraws, ok \in BOOLEAN : InsertSettles(noise, ok)
    \/ ContributionRejects

Spec == Init /\ [][Next]_vars

\* The tenants whose requests feed the store in SpecStore.
StoreTenants ==
    LET yt == Creator({"youtube"}, 900, 2, 1000, 0, 1, 30)
        big == Creator({"youtube", "tiktok"}, 6000, 0, 0, 4, 0, 30)
        tt == Creator({"tiktok"}, 0, 0, 500, 0, 2, 0)
    IN  { <<yt, yt, yt, tt, tt>>, <<yt, yt, big, tt, tt, tt>> }

StoreNoise == { [m \in Metrics |-> NoiseMin] }

NextStore ==
    \/ \E tenant \in StoreTenants : Contribute(tenant)
    \/ \E noise \in StoreNoise : InsertSettles(noise, TRUE)
    \/ StartRefresh
    \/ \E outcome \in Outcomes : RefreshSegment(outcome)
    \/ Tick

SpecStore == Init /\ [][NextStore]_vars

(***************************************************************************)
(* SpecRead: getBenchmarks applied to every table over a few segments of   *)
(* the refresh set.                                                        *)
(***************************************************************************)
ReadSegments ==
    { <<"YouTube", "micro">>, <<"platform", "YouTube">>, <<"platform", "Kick">>,
      <<"tier", "micro">>, <<"overall">> }

ReadRow(name) ==
    [segment |-> name,
     sample_size |-> MinSample,
     cpa_p25 |-> Whole(10),
     cpa_p50 |-> Whole(20),
     cpa_p75 |-> Whole(40),
     cpc_p50 |-> Rat(1, 2),
     cpm_p50 |-> Whole(5),
     conversion_rate_p50 |-> Rat(1, 1000),
     content_delivery_rate_p50 |-> Whole(75),
     views_per_dollar_p50 |-> Whole(100),
     updated_at |-> 0]

ReadTables == { [ s \in present |-> ReadRow(s) ] : present \in SUBSET ReadSegments }

InitRead ==
    /\ pc = "idle"
    /\ influencers = <<>>
    /\ data = NoData
    /\ briefing = <<>>
    /\ response = NoResponse
    /\ task = NoTask
    /\ inserted = NoInsert
    /\ benchmark_data = EmptyBag
    /\ benchmarks \in ReadTables
    /\ now = 0
    /\ refresh = NoRefresh
    /\ lookup = NoLookup
    /\ sql = HealthyDb
    /\ stats_history = {}
    /\ trends = NoTrends
    /\ call = NoCall
    /\ ai_briefings = NoBriefing

NextRead ==
    \E platform \in {"", "YouTube", "Kick"}, tier \in {"", "micro"} :
        GetBenchmarks(platform, tier)

SpecRead == InitRead /\ [][NextRead]_vars

(***************************************************************************)
(* SpecCalc: the period comparisons applied to every pair of totals up to  *)
(* MaxCount, and to every spend and conversion count up to MaxSpend and    *)
(* MaxConv.  The functions are pure: a behaviour is one call.              *)
(***************************************************************************)
NextCalc ==
    \/ \E current \in 0..MaxCount, previous \in 0..MaxCount :
           call = NoCall /\ CalculateChange(current, previous)
    \/ \E currentSpend \in 0..MaxSpend, currentConv \in 0..MaxConv,
          previousSpend \in 0..MaxSpend, previousConv \in 0..MaxConv :
           call = NoCall
           /\ CalculateCpaChange(currentSpend, currentConv, previousSpend, previousConv)

SpecCalc == Init /\ [][NextCalc]_vars

(***************************************************************************)
(* SpecTrends: calculateHistoricalTrends applied, at midnight and at noon, *)
(* to every history of up to MaxHistory snapshots of three creators, two   *)
(* of whom carry the same name.                                            *)
(***************************************************************************)
Midnight == 800 * Day

TrendTimes == { Midnight, Midnight + 12 }

SnapshotTimes ==
    { Midnight + 12 - 3 * Day,
      Midnight + 15 - 7 * Day,
      Midnight + 12 - 10 * Day,
      Midnight + 12 - 20 * Day }

Snapshots ==
    { HistoryRow(c[1], c[2], t, n, 10, 100) :
        c \in { <<1, "Alex">>, <<2, "Alex">>, <<3, "Blake">> },
        t \in SnapshotTimes, n \in {2, 8} }

Histories == { h \in SUBSET Snapshots : Cardinality(h) <= MaxHistory }

InitTrends ==
    /\ pc = "idle"
    /\ influencers = <<>>
    /\ data = NoData
    /\ briefing = <<>>
    /\ response = NoResponse
    /\ task = NoTask
    /\ inserted = NoInsert
    /\ benchmark_data = EmptyBag
    /\ benchmarks = [ s \in {} |-> Null ]
    /\ now = 0
    /\ refresh = NoRefresh
    /\ lookup = NoLookup
    /\ sql = HealthyDb
    /\ stats_history \in Histories
    /\ trends = NoTrends
    /\ call = NoCall
    /\ ai_briefings = NoBriefing

NextTrends == \E at \in TrendTimes, up \in BOOLEAN : CalculateHistoricalTrends(at, up)

SpecTrends == InitTrends /\ [][NextTrends]_vars

(***************************************************************************)
(* SpecMomentum: calculateHistoricalTrends on histories made for the       *)
(* momentum report: a crowd of MaxMomentum creators, each with one         *)
(* snapshot in last week and one in this week, and single creators with up *)
(* to MaxSolo snapshots, conversion counts of zero and window boundaries    *)
(* included.                                                               *)
(***************************************************************************)
MaxMomentum == 6
MaxSolo == 3

CreatorNames == <<"Alex", "Blake", "Casey", "Drew", "Eli", "Fran", "Gray", "Hale">>

\* <<conversions of last week, conversions of this week>>
MomentumPatterns == { <<2, 8>>, <<4, 8>>, <<8, 2>>, <<8, 4>> }

Crowd(pattern) ==
    UNION { { HistoryRow(i, CreatorNames[i], Midnight + 12 - 10 * Day, pattern[i][1], 10, 100),
              HistoryRow(i, CreatorNames[i], Midnight + 12 - 3 * Day, pattern[i][2], 10, 100) } :
            i \in DOMAIN pattern }

Crowds == { Crowd(pattern) : pattern \in [1..MaxMomentum -> MomentumPatterns] }

SoloTimes ==
    SnapshotTimes \cup { Midnight - 7 * Day, Midnight - 14 * Day, Midnight + 12 - 8 * Day }

Solos ==
    { h \in SUBSET { HistoryRow(1, "Alex", t, n, 10, 100) : t \in SoloTimes, n \in {0, 3, 8} } :
        Cardinality(h) <= MaxSolo }

InitMomentum ==
    /\ pc = "idle"
    /\ influencers = <<>>
    /\ data = NoData
    /\ briefing = <<>>
    /\ response = NoResponse
    /\ task = NoTask
    /\ inserted = NoInsert
    /\ benchmark_data = EmptyBag
    /\ benchmarks = [ s \in {} |-> Null ]
    /\ now = 0
    /\ refresh = NoRefresh
    /\ lookup = NoLookup
    /\ sql = HealthyDb
    /\ stats_history \in Crowds \cup Solos
    /\ trends = NoTrends
    /\ call = NoCall
    /\ ai_briefings = NoBriefing

NextMomentum == \E at \in TrendTimes : CalculateHistoricalTrends(at, TRUE)

SpecMomentum == InitMomentum /\ [][NextMomentum]_vars

(***************************************************************************)
(* SpecScore: calculateScore applied to tenants of up to MaxCrowd creators *)
(* that deliver and convert, up to MaxCrowd that were paid and delivered   *)
(* nothing and up to MaxIdle that delivered without converting, with and   *)
(* without campaigns (the tenant is the initial value of `influencers` and *)
(* `sql`), against the defaults, a row holding the defaults, a row of      *)
(* other values, and no benchmarks.                                        *)
(***************************************************************************)
MaxCrowd == 13
MaxIdle == 2

Steady == Creator({"youtube"}, 100, 4, 1000, 0, 1, 30)

Pending == Creator({"tiktok"}, 600, 0, 0, 0, 0, 30)

Idle == Creator({"instagram"}, 300, 0, 50, 0, 2, 30)

Repeat(x, n) == [ i \in 1..n |-> x ]

ScoreTenants ==
    { Repeat(Steady, a) \o Repeat(Pending, b) \o Repeat(Idle, c) :
        a \in 0..MaxCrowd, b \in 0..MaxCrowd, c \in 0..MaxIdle }

\* A benchmarks row with real samples whose values are the static defaults.
DefaultRow ==
    [getDefaultBenchmarks EXCEPT !.segment = <<"overall">>, !.sample_size = MinSample]

ScoreBenchmarks == { getDefaultBenchmarks, DefaultRow, ReadRow(<<"overall">>), NoBenchmarks }

InitScore ==
    /\ pc = "idle"
    /\ influencers \in ScoreTenants
    /\ data = NoData
    /\ briefing = <<>>
    /\ response = NoResponse
    /\ task = NoTask
    /\ inserted = NoInsert
    /\ benchmark_data = EmptyBag
    /\ benchmarks = [ s \in {} |-> Null ]
    /\ now = 0
    /\ refresh = NoRefresh
    /\ lookup = NoLookup
    /\ sql \in { [HealthyDb EXCEPT !.campaigns = n] : n \in 0..1 }
    /\ stats_history = {}
    /\ trends = NoTrends
    /\ call = NoCall
    /\ ai_briefings = NoBriefing

NextScore ==
    \E b \in ScoreBenchmarks :
        CalculateScore(getUserData(influencers, sql, stats_history, now * Day), b)

SpecScore == InitScore /\ [][NextScore]_vars

(***************************************************************************)
(* lib/actions.js: detectActions.  An action is its type, its priority,    *)
(* the platform it names and the percentage its text carries (null when    *)
(* the text carries none).                                                 *)
(***************************************************************************)
\* Number(x) of a DECIMAL column: the value, and 0 for null.
Number(v) == IF IsNull(v) THEN Whole(0) ELSE v

\* A number used as a condition: 0, NaN and null count as false.
Truthy(v) == v[1] # 0

\* The thresholds detectActions takes from the benchmarks row.
detectThresholds(b) ==
    IF hasBenchmarkData(b)
    THEN [cpaGood |-> Number(b.cpa_p50),
          cpaConcern |-> Number(b.cpa_p75),
          contentDeliveryGood |-> IF Truthy(Number(b.content_delivery_rate_p50))
                                  THEN Number(b.content_delivery_rate_p50)
                                  ELSE Whole(80)]
    ELSE [cpaGood |-> Null, cpaConcern |-> Null, contentDeliveryGood |-> Whole(80)]

\* Object.entries(platforms).filter(conversions > 0 && spent > 0).map(cpa)
convertingPlatforms(platforms) ==
    LET converts(s) == s.conversions > 0 /\ s.spent > 0
        kept == SelectSeq(platforms, converts)
    IN  [ i \in 1..Len(kept) |->
            [name |-> kept[i].platform, count |-> kept[i].count,
             conversions |-> kept[i].conversions,
             cpa |-> JsDiv(Whole(kept[i].spent), Whole(kept[i].conversions))] ]

\* Array.prototype.sort with (a, b) => sign * (a.cpa - b.cpa): stable.
sortByCpa(list, sign) ==
    LET ahead(j, i) ==
            \/ (sign = 1 /\ RatLt(list[j].cpa, list[i].cpa))
            \/ (sign = -1 /\ RatLt(list[i].cpa, list[j].cpa))
            \/ (list[j].cpa = list[i].cpa /\ j < i)
    IN  [ k \in 1..Len(list) |->
            list[CHOOSE i \in 1..Len(list) :
                   Cardinality({ j \in 1..Len(list) : ahead(j, i) }) = k - 1] ]

\* .sort((a, b) => a.cpa - b.cpa)
platformsByEfficiency(platforms) == sortByCpa(convertingPlatforms(platforms), 1)

\* .filter(p => p.cpa > thresholds.cpaConcern).sort((a, b) => b.cpa - a.cpa)
highCpaPlatforms(platforms, thresholds) ==
    LET above(p) == RatLt(thresholds.cpaConcern, p.cpa)
    IN  sortByCpa(SelectSeq(convertingPlatforms(platforms), above), -1)

\* getUserData: the creators with conversions, most conversions first, five kept.
topPerformers(infs) ==
    LET converts(i) == i.conversions > 0
    IN  Slice(SortBy(SelectSeq(infs, converts), "conversions", 1), TopCreators)

\* noConversions.filter(i => Number(i.price) >= 500)
significantUnderperformers(d) ==
    LET significant(i) == i.price >= 500
    IN  SelectSeq(d.noConversions, significant)

Action(type, priority, platform, percent) ==
    [type |-> type, priority |-> priority, platform |-> platform, percent |-> percent]

\* Priority 2: Math.round((1 - best.cpa / thresholds.cpaGood) * 100), placed in
\* the text when the row has samples, cpaGood is truthy and best.cpa is below it.
scalePlatform(d, b) ==
    LET sorted == platformsByEfficiency(d.platforms)
        best == sorted[1]
        thresholds == detectThresholds(b)
    IN  IF Len(sorted) = 0 THEN <<>>
        ELSE <<Action("scale_platform", "medium", best.name,
                      IF hasBenchmarkData(b) /\ Truthy(thresholds.cpaGood)
                         /\ RatLt(best.cpa, thresholds.cpaGood)
                      THEN JsRound(JsMul(RatSub(Whole(1), JsDiv(best.cpa, thresholds.cpaGood)),
                                         Whole(100)))
                      ELSE Null)>>

\* Priority 4: Math.round(((worst.cpa - cpaGood) / cpaGood) * 100), behind the
\* guard hasBenchmarkData && thresholds.cpaConcern.
highCpa(d, b) ==
    LET thresholds == detectThresholds(b)
        sorted == highCpaPlatforms(d.platforms, thresholds)
        worst == sorted[1]
    IN  IF hasBenchmarkData(b) /\ Truthy(thresholds.cpaConcern)
           /\ Len(sorted) > 0 /\ Len(significantUnderperformers(d)) = 0
        THEN <<Action("high_cpa", "medium", worst.name,
                      JsRound(JsMul(JsDiv(RatSub(worst.cpa, thresholds.cpaGood),
                                          thresholds.cpaGood),
                                    Whole(100))))>>
        ELSE <<>>

priorityOrder(priority) ==
    CASE priority = "high" -> 0
      [] priority = "medium" -> 1
      [] priority = "low" -> 2

MaxActions == 3

\* detectActions(data, benchmarks): the actions pushed in the order of the
\* seven blocks, sorted by priority, the first three returned.
detectActions(d, b) ==
    LET pushed ==
            (IF Len(d.noContent) > 0
             THEN <<Action("no_content", "high", "", Null)>> ELSE <<>>)
            \o scalePlatform(d, b)
            \o (IF Len(significantUnderperformers(d)) > 0
                THEN <<Action("underperformers", "high", "", Null)>> ELSE <<>>)
            \o highCpa(d, b)
            \o (IF Len(topPerformers(d.influencers)) > 0
                THEN <<Action("top_performer", "low", "", Null)>> ELSE <<>>)
            \o (IF Len(d.influencers) = 0
                THEN <<Action("onboarding", "high", "", Null)>> ELSE <<>>)
            \o (IF d.totals.campaigns = 0 /\ Len(d.influencers) > 0
                THEN <<Action("onboarding", "medium", "", Null)>> ELSE <<>>)
        ahead(j, i) ==
            \/ priorityOrder(pushed[j].priority) < priorityOrder(pushed[i].priority)
            \/ (pushed[j].priority = pushed[i].priority /\ j < i)
        sorted == [ k \in 1..Len(pushed) |->
                      pushed[CHOOSE i \in 1..Len(pushed) :
                               Cardinality({ j \in 1..Len(pushed) : ahead(j, i) }) = k - 1] ]
    IN  Slice(sorted, MaxActions)

\* One call of detectActions, as generateBriefing makes it.
DetectActions(d, b) ==
    /\ call' = [fn |-> "detectActions", args |-> <<d, b>>, result |-> detectActions(d, b)]
    /\ UNCHANGED <<pc, influencers, data, briefing, response, task, inserted,
                   benchmark_data, benchmarks, now, refresh, lookup,
                   ai_briefings, sql, stats_history, trends>>

(***************************************************************************)
(* SpecActions: detectActions applied to a tenant's data and the row       *)
(* getBenchmarks(sql) finds.  Table benchmark_data holds rows that         *)
(* contributeToBenchmarks stored for a tenant whose CPA is 2 (bucket 0)    *)
(* and for one whose CPA is 10 (bucket 10), up to MaxCheap and MaxDear of  *)
(* them; table benchmarks is what computeSegmentBenchmarks makes of them   *)
(* for segment 'overall'.                                                  *)
(***************************************************************************)
MaxCheap == 6
MaxDear == 6
MaxPerPlatform == 2

Thrifty == Creator({"twitch"}, 2, 1, 100, 0, 1, 30)

Modest == Creator({"instagram"}, 10, 1, 100, 0, 1, 30)

Stuck == Creator({"kick"}, 600, 0, 50, 0, 2, 30)

CheapRow ==
    LET d == getUserData(Repeat(Thrifty, 3) \o Repeat(Modest, 2), HealthyDb, {}, 0)
    IN  ContributionRow(d, d.platforms[1], [m \in Metrics |-> NoiseMin], 0)

DearRow ==
    LET d == getUserData(Repeat(Modest, 3) \o Repeat(Thrifty, 2), HealthyDb, {}, 0)
    IN  ContributionRow(d, d.platforms[1], [m \in Metrics |-> NoiseMin], 0)

Samples(cheap, dear) ==
    [ r \in (IF cheap > 0 THEN {CheapRow} ELSE {}) \cup (IF dear > 0 THEN {DearRow} ELSE {})
        |-> IF r = CheapRow THEN cheap ELSE dear ]

ActionTenants ==
    { Repeat(Steady, a) \o Repeat(Thrifty, b) \o Repeat(Pending, c) \o Repeat(Stuck, e) :
        a \in 0..MaxPerPlatform, b \in 0..MaxPerPlatform, c \in 0..1, e \in 0..1 }

InitActions ==
    /\ pc = "idle"
    /\ influencers \in ActionTenants
    /\ data = NoData
    /\ briefing = <<>>
    /\ response = NoResponse
    /\ task = NoTask
    /\ inserted = NoInsert
    /\ benchmark_data \in { Samples(cheap, dear) : cheap \in 0..MaxCheap, dear \in 0..MaxDear }
    /\ benchmarks = computeSegmentBenchmarks([ s \in {} |-> Null ], benchmark_data,
                                             RefreshSegments[1], 0, "ok")
    /\ now = 0
    /\ refresh = NoRefresh
    /\ lookup = NoLookup
    /\ sql \in { [HealthyDb EXCEPT !.campaigns = n] : n \in 0..1 }
    /\ stats_history = {}
    /\ trends = NoTrends
    /\ call = NoCall
    /\ ai_briefings = NoBriefing

NextActions ==
    DetectActions(getUserData(influencers, sql, stats_history, now * Day),
                  getBenchmarks(benchmarks, "", ""))

SpecActions == InitActions /\ [][NextActions]_vars

(***************************************************************************)
(* SpecBriefing: one briefing request against every database condition:   *)
(* no connection, benchmark tables that throw, history tables that throw,  *)
(* an influencers query that throws.                                       *)
(***************************************************************************)
Databases ==
    { [configured |-> c, benchmarks |-> b, history |-> h, influencers |-> i,
       campaigns |-> 1] :
        c \in BOOLEAN, b \in BOOLEAN, h \in BOOLEAN, i \in BOOLEAN }

BriefingTenants ==
    { <<>>,
      Repeat(Steady, 6) \o <<Pending>>,
      Repeat(Creator({"youtube"}, 900, 2, 1000, 0, 1, 30), 3)
          \o Repeat(Creator({"tiktok"}, 0, 0, 500, 0, 2, 0), 2) }

BriefingTables == { [ s \in {} |-> Null ], [ s \in { <<"overall">> } |-> ReadRow(s) ] }

BriefingHistories ==
    { {},
      { HistoryRow(1, "Alex", 8, 8, 10, 100), HistoryRow(1, "Alex", 8 - 9 * Day, 2, 10, 100) } }

InitBriefing ==
    /\ pc = "idle"
    /\ influencers = <<>>
    /\ data = NoData
    /\ briefing = <<>>
    /\ response = NoResponse
    /\ task = NoTask
    /\ inserted = NoInsert
    /\ benchmark_data = EmptyBag
    /\ benchmarks \in BriefingTables
    /\ now = 0
    /\ refresh = NoRefresh
    /\ lookup = NoLookup
    /\ sql = HealthyDb
    /\ stats_history \in BriefingHistories
    /\ trends = NoTrends
    /\ call = NoCall
    /\ ai_briefings = NoBriefing

NextBriefing ==
    \/ pc = "idle" /\ \E tenant \in BriefingTenants, db \in Databases : Request(tenant, db)
    \/ FetchBenchmarks
    \/ ReadData
    \/ Generate
    \/ SaveAndContribute
    \/ Respond
    \/ RespondError
    \/ \E noise \in StoreNoise, ok \in BOOLEAN : InsertSettles(noise, ok)
    \/ ContributionRejects

SpecBriefing == InitBriefing /\ [][NextBriefing]_vars

(***************************************************************************)
(* Claims about the contribution path, stated on the tenant's own rows     *)
(* (the variable influencers) and on what reached the store.               *)
(***************************************************************************)
PlatformNames == {"YouTube", "TikTok", "Instagram", "Twitch", "Kick", "Other"}

CreatorsOn(P) == { i \in 1..Len(influencers) : PlatformOf(influencers[i]) = P }

RECURSIVE SumField(_, _)
SumField(S, field) ==
    IF S = {} THEN 0
    ELSE LET i == CHOOSE j \in S : TRUE
         IN  influencers[i][field] + SumField(S \ {i}, field)

SpentOn(P) == SumField(CreatorsOn(P), "price")

ConversionsOn(P) == SumField(CreatorsOn(P), "conversions")

ViewsOn(P) == SumField(CreatorsOn(P), "views")

PopulatedPlatforms == { P \in PlatformNames : CreatorsOn(P) # {} }

ConvertingPlatforms == { P \in PlatformNames : ConversionsOn(P) > 0 }

RowsOf(P) == { r \in BagToSet(benchmark_data) : r.platform = P }

RECURSIVE Copies(_)
Copies(R) ==
    IF R = {} THEN 0
    ELSE LET r == CHOOSE x \in R : TRUE
         IN  CopiesIn(r, benchmark_data) + Copies(R \ {r})

RowCount(P) == Copies(RowsOf(P))

\* An INSERT was issued: one is pending, one settled, or a row is stored.
InsertIssued ==
    \/ task.status = "running"
    \/ task.attempts > 0
    \/ benchmark_data # EmptyBag

C2_Eligible(P) ==
    /\ Cardinality(CreatorsOn(P)) >= 3
    /\ ToLowerCase(P) \in {"youtube", "tiktok", "instagram", "twitch"}
    /\ (ConversionsOn(P) > 0 \/ ViewsOn(P) > 0)

\* C2: when the gate passes and every INSERT is accepted, a finished call has
\* written exactly one row for each platform with at least 3 creators, on the
\* allow-list, with cpa or conversionRate non-null, and no row for any other.
C2_OneRowPerEligiblePlatform ==
    (task.status = "done" /\ task.failures = 0 /\ GatePasses(data)) =>
        \A P \in PlatformNames :
            RowCount(P) = IF C2_Eligible(P) THEN 1 ELSE 0

\* A finished call that wrote for two platforms, one of them with a null cpa.
C2_Witness ==
    /\ task.status = "done"
    /\ task.failures = 0
    /\ RowCount("YouTube") = 1
    /\ RowCount("TikTok") = 1
    /\ \E r \in RowsOf("TikTok") : IsNull(r.cpa)

Columns == {"platform", "price_tier", "cpa", "cpc", "cpm", "conversion_rate",
            "content_delivery_rate", "views_per_dollar", "recorded_at"}

C7_Tier(P) ==
    IF SpentOn(P) < 1000 * Cardinality(CreatorsOn(P)) THEN "small"
    ELSE IF SpentOn(P) < 5000 * Cardinality(CreatorsOn(P)) THEN "medium"
    ELSE "large"

\* C7: every stored row carries exactly the benchmark_data columns (no tenant
\* identifier, no spend), and its price_tier is small, medium or large by the
\* platform's average spend per creator (below 1000, below 5000, else).
C7_PriceTierIsCoarse ==
    \A r \in BagToSet(benchmark_data) :
        /\ DOMAIN r = Columns
        /\ r.price_tier \in {"small", "medium", "large"}
        /\ r.price_tier = C7_Tier(r.platform)

\* Rows of two different tiers are stored, one of them medium.
C7_Witness ==
    /\ \E r \in BagToSet(benchmark_data) : r.price_tier = "medium"
    /\ \E r \in BagToSet(benchmark_data) : r.price_tier = "small"

C8_Width(m) ==
    CASE m = "cpa" -> <<5, 1>>
      [] m = "cpc" -> <<1, 10>>
      [] m = "cpm" -> <<1, 1>>
      [] m = "conversion_rate" -> <<1, 10000>>
      [] m = "content_delivery_rate" -> <<5, 1>>
      [] m = "views_per_dollar" -> <<10, 1>>

C8_Within(x, s, w) ==
    LET half == RatDiv(w, <<2, 1>>)
    IN  /\ RatLeq(RatSub(RatMul(<<9, 10>>, x), half), s)
        /\ RatLeq(s, RatAdd(RatMul(<<11, 10>>, x), half))
        /\ RatDiv(s, w)[2] = 1

\* C8: each metric of a stored row is null when its pre-noise value is null,
\* and otherwise a multiple of the metric's bucket width w that lies between
\* 0.9 x - w/2 and 1.1 x + w/2 of the pre-noise value x.
C8_NoiseWithinTenPercent ==
    inserted.stored =>
        \A m \in Metrics :
            IF IsNull(inserted.pre[m]) THEN IsNull(inserted.row[m])
            ELSE /\ ~ IsNull(inserted.row[m])
                 /\ C8_Within(inserted.pre[m], inserted.row[m], C8_Width(m))

\* A row was stored whose cpa moved off its pre-noise value and whose
\* views-per-dollar is null.
C8_Witness ==
    /\ inserted.stored
    /\ ~ IsNull(inserted.pre.cpa)
    /\ inserted.row.cpa # inserted.pre.cpa
    /\ \E m \in Metrics : IsNull(inserted.pre[m])

\* The INSERTs a call that passes the gate reaches.
C9_Reached == { i \in 1..Len(data.platforms) : Contributes(data, data.platforms[i]) }

\* C9: the handler can answer as soon as it has started the contribution,
\* whatever the task's state; its answer is the success response carrying the
\* briefing it generated, whether the task is running, done, rejected or had
\* INSERTs fail; and a finished task attempted every INSERT it reaches, failed
\* ones included.
C9_ResponseIgnoresContribution ==
    /\ pc = "respond" => ENABLED Respond
    /\ pc = "done" =>
           response = [sent |-> TRUE, success |-> TRUE, cached |-> FALSE,
                       briefing |-> generateBriefing(
                                        getUserData(influencers, sql, stats_history, now * Day),
                                        lookup.result),
                       benchmarks |-> [cpa_p50 |-> lookup.result.cpa_p50,
                                       sample_size |-> lookup.result.sample_size]]
    /\ (task.status = "done" /\ GatePasses(data)) =>
           task.attempts = Cardinality(C9_Reached)

\* The response is out while the task still runs after a failed INSERT.
C9_Witness ==
    /\ pc = "done"
    /\ response.success
    /\ task.status = "running"
    /\ task.failures > 0

(***************************************************************************)
(* Claims about the percentile engine (SpecStore) and the read path        *)
(* (SpecRead).  SpecStore runs the handlers one at a time: a refresh and a *)
(* contribution do not overlap, and the clock moves between refreshes.     *)
(***************************************************************************)
\* The contributions of the trailing 90 days that match a segment's filter,
\* counted as the claims count them.
Fresh(seg, at) ==
    { r \in BagToSet(benchmark_data) :
        /\ r.recorded_at > at - 90
        /\ seg.platform = "" \/ r.platform = seg.platform
        /\ seg.price_tier = "" \/ r.price_tier = seg.price_tier }

FreshCount(seg, at) == CopiesOf(Fresh(seg, at), benchmark_data)

Present(table) == DOMAIN table

RefreshSet == { RefreshSegments[i] : i \in 1..Len(RefreshSegments) }

\* The step is one call of computeSegmentBenchmarks.
SegmentStep == refresh.status = "running" /\ refresh'.attempted = refresh.attempted + 1

Others(name) == (Present(benchmarks) \cup Present(benchmarks')) \ {name}

C3_Step ==
    /\ \A s \in Present(benchmarks') : benchmarks'[s].sample_size >= 10
    /\ ~ SegmentStep => benchmarks' = benchmarks
    /\ (SegmentStep /\ refresh'.outcome = "ok") =>
           LET seg == RefreshSegments[refresh.next]
               n == FreshCount(seg, now)
           IN  /\ \A s \in Others(seg.name) :
                      s \in Present(benchmarks) /\ s \in Present(benchmarks')
                      /\ benchmarks'[s] = benchmarks[s]
               /\ IF n >= 10
                  THEN /\ seg.name \in Present(benchmarks')
                       /\ benchmarks'[seg.name].sample_size = n
                       /\ benchmarks'[seg.name].updated_at = now
                  ELSE benchmarks' = benchmarks

\* C3: a call of computeSegmentBenchmarks whose queries succeed writes the row
\* of its segment (sample_size the count, updated now) exactly when at least
\* 10 contributions of the trailing 90 days match the segment; with 9 or fewer
\* the table is left as it was; no other step changes the table; so every row
\* has sample_size >= 10.
C3_WrittenIffTenSamples == [][C3_Step]_vars

\* After a refresh, 'overall' holds a sample of exactly 10 while
\* 'platform:YouTube', with 9 contributions in the window, is absent.
C3_Witness ==
    /\ refresh.status = "idle"
    /\ refresh.attempted = Len(RefreshSegments)
    /\ ~ refresh.faulted
    /\ <<"overall">> \in Present(benchmarks)
    /\ benchmarks[<<"overall">>].sample_size = 10
    /\ FreshCount(Segment(<<"platform", "YouTube">>, "YouTube", ""), now) = 9
    /\ <<"platform", "YouTube">> \notin Present(benchmarks)

SegmentNamed(name) == CHOOSE seg \in RefreshSet : seg.name = name

RefreshCompletes == refresh.status = "running" /\ refresh'.status = "idle"

\* C4 as claimed: when a refresh completes, every segment present in the table
\* has at least 10 matching contributions within the trailing 90 days as of
\* that refresh.
C4_PresentOnlyWithFreshSample ==
    [][ RefreshCompletes =>
          \A s \in Present(benchmarks') : FreshCount(SegmentNamed(s), now) >= 10 ]_vars

C4_Step ==
    /\ \A s \in Present(benchmarks') :
           /\ benchmarks'[s].sample_size >= 10
           /\ benchmarks'[s].sample_size
                  <= CopiesOf({ r \in Fresh(SegmentNamed(s), benchmarks'[s].updated_at) :
                                  r.recorded_at <= benchmarks'[s].updated_at },
                              benchmark_data')
    /\ SegmentStep =>
           LET seg == RefreshSegments[refresh.next]
           IN  (seg.name \in Present(benchmarks) /\ FreshCount(seg, now) < 10) =>
                   /\ seg.name \in Present(benchmarks')
                   /\ benchmarks'[seg.name] = benchmarks[seg.name]

\* C4 as amended: a segment is present only if at least 10 contributions
\* matching it lay within the 90 days trailing the refresh that last wrote its
\* row (its updated_at); a refresh that finds fewer than 10 leaves an existing
\* row in place, stale, and does not remove it.
C4_PresentOnlyWithSampleAtLastWrite == [][C4_Step]_vars

\* A refresh has completed at the current time, 'overall' has fewer than 10
\* contributions left in the window, and its older row is still what
\* getBenchmarks returns.
C4_Witness ==
    /\ refresh.status = "idle"
    /\ refresh.attempted = Len(RefreshSegments)
    /\ ~ refresh.faulted
    /\ <<"overall">> \in Present(benchmarks)
    /\ benchmarks[<<"overall">>].updated_at < now
    /\ FreshCount(Segment(<<"overall">>, "", ""), now) < 10
    /\ getBenchmarks(benchmarks, "", "") = benchmarks[<<"overall">>]

C5_Expected ==
    LET p == lookup.platform
        t == lookup.priceTier
    IN  IF p # "" /\ t # "" /\ <<p, t>> \in Present(benchmarks)
        THEN benchmarks[<<p, t>>]
        ELSE IF p # "" /\ <<"platform", p>> \in Present(benchmarks)
        THEN benchmarks[<<"platform", p>>]
        ELSE IF t # "" /\ <<"tier", t>> \in Present(benchmarks)
        THEN benchmarks[<<"tier", t>>]
        ELSE IF <<"overall">> \in Present(benchmarks)
        THEN benchmarks[<<"overall">>]
        ELSE [segment |-> <<"default">>, sample_size |-> 0,
              cpa_p25 |-> <<15, 1>>, cpa_p50 |-> <<30, 1>>, cpa_p75 |-> <<60, 1>>,
              cpc_p50 |-> <<1, 2>>, cpm_p50 |-> <<5, 1>>,
              conversion_rate_p50 |-> <<1, 1000>>,
              content_delivery_rate_p50 |-> <<80, 1>>,
              views_per_dollar_p50 |-> <<200, 1>>]

\* C5: getBenchmarks(platform, tier) returns the first row that exists among
\* '{platform}:{tier}' (both given), 'platform:{platform}' (platform given),
\* 'tier:{tier}' (tier given) and 'overall', and the static defaults (segment
\* 'default', sample_size 0, cpa 15/30/60, content delivery 80, views per
\* dollar 200) when none exists.
C5_FirstSegmentFoundElseDefaults ==
    lookup.called => lookup.result = C5_Expected

\* (Kick, micro) asked with 'tier:micro' and 'overall' both present and no
\* Kick row: the answer is the 'tier:micro' row.
C5_Witness ==
    /\ lookup.called
    /\ lookup.platform = "Kick"
    /\ lookup.priceTier = "micro"
    /\ Present(benchmarks) = { <<"tier", "micro">>, <<"overall">>, <<"platform", "YouTube">> }
    /\ lookup.result.segment = <<"tier", "micro">>

StoredTiers == {"small", "medium", "large"}

\* C6 as claimed: when a refresh completes without a failure, every price tier
\* T the contribution path stores that has at least 10 contributions in the
\* window has its segment 'tier:T', which getBenchmarks(null, T) returns, and
\* every platform P of the combinations with at least 10 contributions of tier
\* T has its segment 'P:T'.
C6_TierSegmentsComputed ==
    [][ (RefreshCompletes /\ ~ refresh'.faulted) =>
          \A T \in StoredTiers :
              /\ FreshCount(Segment(<<"tier", T>>, "", T), now) >= 10 =>
                     /\ <<"tier", T>> \in Present(benchmarks')
                     /\ getBenchmarks(benchmarks', "", T).segment = <<"tier", T>>
              /\ \A i \in 1..Len(ComboPlatforms) :
                     LET P == ComboPlatforms[i]
                     IN  FreshCount(Segment(<<P, T>>, P, T), now) >= 10 =>
                             <<P, T>> \in Present(benchmarks') ]_vars

C10_Step ==
    (refresh.status = "running" /\ refresh' # refresh) =>
        /\ refresh'.attempted = refresh.attempted + 1
        /\ refresh'.status = "idle" => refresh'.attempted = 19
        /\ refresh'.status = "running" => refresh'.next = refresh.next + 1
        /\ (refresh.faulted /\ refresh'.outcome = "ok") =>
               LET seg == RefreshSegments[refresh.next]
               IN  FreshCount(seg, now) >= 10 =>
                       /\ seg.name \in Present(benchmarks')
                       /\ benchmarks'[seg.name].updated_at = now
                       /\ benchmarks'[seg.name].sample_size = FreshCount(seg, now)

\* C10: after a segment's computation failed, refreshBenchmarks goes on to the
\* next segment, ends only when all 19 were attempted, and still writes every
\* later segment that has at least 10 samples.
C10_FailedSegmentDoesNotStopRefresh == [][C10_Step]_vars

\* A refresh completed in which 'overall' failed and 'platform:YouTube',
\* computed after it, was written.
C10_Witness ==
    /\ refresh.status = "idle"
    /\ refresh.attempted = Len(RefreshSegments)
    /\ refresh.faulted
    /\ <<"overall">> \notin Present(benchmarks)
    /\ <<"platform", "YouTube">> \in Present(benchmarks)
    /\ benchmarks[<<"platform", "YouTube">>].updated_at = now

(***************************************************************************)
(* Claims about the period comparisons, checked under SpecCalc on the last *)
(* call the variable `call` records.                                       *)
(***************************************************************************)
\* n is x rounded to the nearest integer with a tie going up, for x = num / den
\* and den > 0: n - 1/2 <= x < n + 1/2.
IsRounded(n, num, den) ==
    /\ (2 * n - 1) * den <= 2 * num
    /\ 2 * num < (2 * n + 1) * den

BandDirection(percent, above, below, within) ==
    IF percent > 5 THEN above ELSE IF percent < -5 THEN below ELSE within

\* C12: calculateChange on non-negative totals returns {0, flat} for (0, 0),
\* {100, up} when only the previous total is 0, and otherwise the percentage of
\* change rounded to an integer, with direction up above 5, down below -5 and
\* flat in between; current and previous are returned as given, so equal totals
\* always give {0, flat}.
C12_CalculateChange ==
    call.fn = "calculateChange" =>
        LET current == call.args[1]
            previous == call.args[2]
            r == call.result
        IN  /\ r.current = current /\ r.previous = previous
            /\ r.percent \in Int
            /\ r.direction = BandDirection(r.percent, "up", "down", "flat")
            /\ previous = 0 /\ current = 0 => r.percent = 0
            /\ previous = 0 /\ current > 0 => r.percent = 100
            /\ previous > 0 => IsRounded(r.percent, (current - previous) * 100, previous)
            /\ current = previous => r.percent = 0 /\ r.direction = "flat"

C12_Witness ==
    /\ call.fn = "calculateChange"
    /\ call.args = <<15, 10>>
    /\ call.result = [percent |-> 50, direction |-> "up", current |-> 15, previous |-> 10]

C13_Cpa(spend, conv) == IF conv = 0 THEN Null ELSE Rat(spend, conv)

\* C13: calculateCpaChange returns {0, flat, null, null} when neither period has
\* conversions, {0, new, currentCpa, null} when only the previous period has
\* none, {-100, lost, null, previousCpa} when only the current one has none, and
\* otherwise the rounded percentage of change of the CPA with direction
\* improving below -5, worsening above 5 and stable in between (a previous CPA
\* of 0 makes the percentage Infinity, or NaN when the current CPA is 0 too).
C13_CalculateCpaChange ==
    call.fn = "calculateCpaChange" =>
        LET currentCpa == C13_Cpa(call.args[1], call.args[2])
            previousCpa == C13_Cpa(call.args[3], call.args[4])
            r == call.result
        IN  IF currentCpa = Null /\ previousCpa = Null
            THEN r = [percent |-> Whole(0), direction |-> "flat",
                      current |-> Null, previous |-> Null]
            ELSE IF previousCpa = Null
            THEN r = [percent |-> Whole(0), direction |-> "new",
                      current |-> currentCpa, previous |-> Null]
            ELSE IF currentCpa = Null
            THEN r = [percent |-> Whole(-100), direction |-> "lost",
                      current |-> Null, previous |-> previousCpa]
            ELSE IF previousCpa[1] > 0
            THEN /\ r.percent[2] = 1
                 /\ IsRounded(r.percent[1],
                              (currentCpa[1] * previousCpa[2]
                                 - previousCpa[1] * currentCpa[2]) * 100,
                              previousCpa[1] * currentCpa[2])
                 /\ r.direction = BandDirection(r.percent[1], "worsening", "improving", "stable")
            ELSE IF currentCpa[1] > 0
            THEN r.percent = Infinity /\ r.direction = "worsening"
            ELSE r.percent = NaN /\ r.direction = "stable"

C13_Witness ==
    /\ call.fn = "calculateCpaChange"
    /\ call.args = <<12, 2, 20, 2>>
    /\ call.result.percent = Whole(-40)
    /\ call.result.direction = "improving"

C14_BothExist == call.fn = "calculateCpaChange" /\ call.args[2] > 0 /\ call.args[4] > 0

C14_Lower ==
    RatLt(C13_Cpa(call.args[1], call.args[2]), C13_Cpa(call.args[3], call.args[4]))

C14_Higher ==
    RatLt(C13_Cpa(call.args[3], call.args[4]), C13_Cpa(call.args[1], call.args[2]))

\* C14 as the claim states it: a lower CPA is always reported as improving and a
\* higher one as worsening.
C14_LowerIsImproving ==
    C14_BothExist =>
        /\ C14_Lower => call.result.direction = "improving"
        /\ C14_Higher => call.result.direction = "worsening"

\* C14: CPA delta polarity, with the dead band: when both period CPAs exist, a
\* lower current CPA is reported as improving or, when the rounded change is
\* within 5 percent, as stable, and never as worsening; a higher current CPA is
\* reported as worsening or stable, never as improving; improving is reported
\* only for a lower CPA and worsening only for a higher one.
C14_PolarityWithDeadBand ==
    C14_BothExist =>
        /\ C14_Lower => call.result.direction \in {"improving", "stable"}
        /\ C14_Higher => call.result.direction \in {"worsening", "stable"}
        /\ call.result.direction = "improving" => C14_Lower
        /\ call.result.direction = "worsening" => C14_Higher
        /\ IsFinite(call.result.percent) =>
              /\ call.result.direction = "improving" <=> call.result.percent[1] < -5
              /\ call.result.direction = "worsening" <=> call.result.percent[1] > 5

C14_Witness ==
    /\ C14_BothExist
    /\ C14_Lower
    /\ call.result.direction = "stable"
    /\ call.result.percent = Whole(-5)

(***************************************************************************)
(* Claims about the trend engine, checked under SpecTrends on the last     *)
(* call the variable `trends` records (trends.rows is the history it read, *)
(* trends.now its clock).                                                  *)
(***************************************************************************)
Computed == trends.called /\ ~trends.failed

\* The history rows whose recorded_at lies in [from, to), or [from, to] when
\* `closed`.
RecordedIn(from, to, closed) ==
    { r \in trends.rows : r.recorded_at >= from
                          /\ (r.recorded_at < to \/ (closed /\ r.recorded_at = to)) }

RollingOnTimestamp(scale, days) ==
    LET from == trends.now - days * Day
        before == trends.now - 2 * days * Day
    IN  /\ scale.current.conversions = Total(RecordedIn(from, trends.now, TRUE), "conversions")
        /\ scale.previous.conversions = Total(RecordedIn(before, from, FALSE), "conversions")
        /\ scale.current.spend = Total(RecordedIn(from, trends.now, TRUE), "cost")
        /\ scale.previous.spend = Total(RecordedIn(before, from, FALSE), "cost")
        /\ scale.current.views = Total(RecordedIn(from, trends.now, TRUE), "views")
        /\ scale.previous.views = Total(RecordedIn(before, from, FALSE), "views")

\* C15: trend windows roll on the snapshot timestamp: a snapshot recorded in
\* [now-7d, now] is summed into this week and one recorded in [now-14d, now-7d)
\* into last week, whatever the time of day of now and of the snapshot, and
\* likewise for 30/60 and 365/730 days.
C15_WindowsRollOnTimestamp ==
    Computed =>
        /\ RollingOnTimestamp(trends.weekly, 7)
        /\ RollingOnTimestamp(trends.monthly, 30)
        /\ RollingOnTimestamp(trends.yearly, 365)

Reported == trends.creatorMomentum.rising \o trends.creatorMomentum.cooling
            \o trends.creatorMomentum.stalled

TimesReported(name) ==
    Cardinality({ i \in 1..Len(Reported) : Reported[i].name = name })

\* C16 as the claim states it: no name appears in more than one bucket.
C16_NoNameInTwoBuckets ==
    Computed =>
        \A name \in { r.influencer_name : r \in trends.rows } :
            Cardinality({ b \in {"rising", "cooling", "stalled"} :
                            \E i \in 1..Len(trends.creatorMomentum[b]) :
                                trends.creatorMomentum[b][i].name = name }) <= 1

IdsNamed(name) ==
    { g.influencer_id : g \in { h \in influencerHistory(trends.rows, trends.now) :
                                  h.influencer_name = name } }

\* C16: momentum exclusivity per creator: every influencer id gives at most one
\* entry of the report, so a name is reported at most as many times as there
\* are influencer ids carrying it, and the name of a single id appears in at
\* most one of rising, cooling and stalled.
C16_NoCreatorInTwoBuckets ==
    Computed =>
        \A name \in { r.influencer_name : r \in trends.rows } :
            TimesReported(name) <= Cardinality(IdsNamed(name))

C16_Witness ==
    /\ Computed
    /\ Len(trends.creatorMomentum.rising) = 1
    /\ Len(trends.creatorMomentum.cooling) = 1
    /\ trends.creatorMomentum.rising[1].name # trends.creatorMomentum.cooling[1].name

\* The first rule of the claim's list that a creator's week totals match.
C17_FirstRule(thisWeek, lastWeek, days) ==
    LET change == calculateChange(thisWeek, lastWeek)
    IN  CASE change.percent > 20 /\ thisWeek > 0 -> "rising"
          [] ~(change.percent > 20 /\ thisWeek > 0)
             /\ change.percent < -30 /\ lastWeek > 0 -> "cooling"
          [] ~(change.percent > 20 /\ thisWeek > 0)
             /\ ~(change.percent < -30 /\ lastWeek > 0)
             /\ days # NoDate /\ days > 7 /\ lastWeek > 0 -> "stalled"
          [] OTHER -> "omitted"

C17_Classified(bucket) ==
    LET perDay == influencerHistory(trends.rows, trends.now)
        stats(id) == creatorStats(perDay, id, trends.now)
    IN  { stats(id) : id \in { i \in { g.influencer_id : g \in perDay } :
            C17_FirstRule(stats(i).thisWeek, stats(i).lastWeek,
                          daysSinceConversion(stats(i), trends.now)) = bucket } }

C17_Names(list) == { list[i].name : i \in 1..Len(list) }

\* C17: each creator is put in the bucket of the first rule it matches, in the
\* order rising, cooling, stalled, and omitted when it matches none: every
\* bucket of the report (none holding more than its 5 entries here) lists
\* exactly the creators whose first matching rule is that bucket, with their
\* week totals.
C17_FirstMatchingRule ==
    Computed =>
        \A bucket \in {"rising", "cooling", "stalled"} :
            LET list == trends.creatorMomentum[bucket]
                expected == C17_Classified(bucket)
            IN  /\ Len(list) = Cardinality(expected)
                /\ \A i \in 1..Len(list) :
                       \E st \in expected :
                           /\ list[i].name = st.name
                           /\ list[i].lastWeek = st.lastWeek
                           /\ bucket # "stalled" =>
                                 /\ list[i].thisWeek = st.thisWeek
                                 /\ list[i].change =
                                        calculateChange(st.thisWeek, st.lastWeek).percent

C17_Witness ==
    /\ Computed
    /\ Len(trends.creatorMomentum.cooling) = 1
    /\ trends.creatorMomentum.cooling[1].lastWeek = 8
    /\ trends.creatorMomentum.cooling[1].thisWeek = 2
    /\ trends.creatorMomentum.cooling[1].change = -75
    /\ trends.creatorMomentum.stalled = <<>>

(***************************************************************************)
(* Claims about the health score, checked under SpecScore on the last call *)
(* the variable `call` records.                                            *)
(***************************************************************************)
Scored == call.fn = "calculateScore"

IssueKinds(issues) == [ i \in 1..Len(issues) |-> issues[i].kind ]

\* C19: the score and the issues obtained with a benchmarks object of
\* sample_size 0 equal, up to the wording of the messages that cite the
\* benchmark, those obtained with a row of sample_size > 0 whose values are the
\* static defaults.
C19_SameWithDefaultRow ==
    (Scored /\ call.args[2] = getDefaultBenchmarks) =>
        LET other == calculateScore(call.args[1], DefaultRow)
        IN  /\ call.result.score = other.score
            /\ IssueKinds(call.result.issues) = IssueKinds(other.issues)

C20_SpendWithoutConversions ==
    /\ Scored
    /\ Len(call.args[1].influencers) >= 1
    /\ call.args[1].totals.totalSpent > 500
    /\ call.args[1].totals.totalConversions = 0

\* C20: for a tenant with at least one creator, total spend above 500 and no
\* conversion at all, calculateScore takes exactly 30 points off for the CPA
\* category and lists the issue 'No conversions despite significant spend',
\* whatever the benchmarks argument.
C20_NoConversionsCostsThirty ==
    C20_SpendWithoutConversions =>
        /\ call.result.deducted.cpa = 30
        /\ \E i \in 1..Len(call.result.issues) :
               call.result.issues[i].kind = "no_conversions_despite_spend"
        /\ call.result.score <= 70

C20_Witness ==
    /\ C20_SpendWithoutConversions
    /\ call.args[2].sample_size > 0
    /\ call.args[1].totals.totalSpent < 5000
    /\ call.result.deducted.cpa = 30

NullOrAmount(v) == IsNull(v) \/ (IsFinite(v) /\ v[1] >= 0)

\* C21: for every tenant with non-negative columns, the ratios of the
\* contribution path (CPA, CPC, CPM, conversion rate, content delivery rate,
\* views per dollar, before noise and as stored, and the average price) and the
\* ratios of calculateScore (CPA, content delivery rate, views per dollar, waste
\* ratio) are null or finite and non-negative: no division has a zero divisor.
C21_NoDivisionByZero ==
    /\ inserted.stored =>
           \A m \in Metrics : NullOrAmount(inserted.pre[m]) /\ NullOrAmount(inserted.row[m])
    /\ task.status = "running" =>
           /\ data.platforms[task.at].count > 0
           /\ NullOrAmount(avgPrice(data.platforms[task.at]))
    /\ pc \in {"generate", "save", "respond", "done"} =>
           /\ NullOrAmount(ScoreCpa(data))
           /\ NullOrAmount(contentDeliveryRate(data))
           /\ NullOrAmount(viewsPerDollar(data))
           /\ NullOrAmount(wasteRatio(data))

C21_Witness ==
    /\ inserted.stored
    /\ IsNull(inserted.pre.cpa)
    /\ IsNull(inserted.pre.cpc)
    /\ IsNull(inserted.pre.views_per_dollar)
    /\ inserted.pre.conversion_rate = Whole(0)
    /\ IsNull(inserted.row.views_per_dollar)
    /\ pc = "done"
    /\ ~ IsNull(ScoreCpa(data))

(***************************************************************************)
(* Claims about the rows a refresh writes (SpecStore).                     *)
(***************************************************************************)
\* The non-null cpa values a call of computeSegmentBenchmarks aggregates.
C22_Values == Ordered(benchmark_data, RefreshSegments[refresh.next], now, "cpa")

C22_Median(values) ==
    LET n == Len(values)
    IN  IF n % 2 = 1 THEN values[(n + 1) \div 2]
        ELSE RatDiv(RatAdd(values[n \div 2], values[(n \div 2) + 1]), Whole(2))

C22_Step ==
    /\ \A s \in Present(benchmarks') :
           LET row == benchmarks'[s]
           IN  \/ IsNull(row.cpa_p25) /\ IsNull(row.cpa_p50) /\ IsNull(row.cpa_p75)
               \/ /\ ~ IsNull(row.cpa_p25) /\ ~ IsNull(row.cpa_p50) /\ ~ IsNull(row.cpa_p75)
                  /\ RatLeq(row.cpa_p25, row.cpa_p50)
                  /\ RatLeq(row.cpa_p50, row.cpa_p75)
    /\ (SegmentStep /\ benchmarks' # benchmarks /\ Len(C22_Values) > 0) =>
           LET row == benchmarks'[RefreshSegments[refresh.next].name]
               n == Len(C22_Values)
           IN  /\ RatLeq(C22_Values[1], row.cpa_p25)
               /\ RatLeq(row.cpa_p75, C22_Values[n])
               /\ row.cpa_p50 = ToDecimal(C22_Median(C22_Values), 2)
               /\ (n - 1) % 4 = 0 =>
                      /\ row.cpa_p25 = C22_Values[((n - 1) \div 4) + 1]
                      /\ row.cpa_p75 = C22_Values[((3 * (n - 1)) \div 4) + 1]

\* C22: every row a refresh writes has cpa_p25 <= cpa_p50 <= cpa_p75, the three
\* being the interpolated quartiles of the non-null cpa values of the matching
\* contributions of the window: they lie between the least and the greatest of
\* these values and cpa_p50 is their median (the three are null together when
\* no matching contribution has a cpa).
C22_PercentilesMonotone == [][C22_Step]_vars

\* A row whose lower quartile is interpolated between two contributed values
\* and lies strictly below its median.
C22_Witness ==
    \E s \in Present(benchmarks) :
        /\ ~ IsNull(benchmarks[s].cpa_p25)
        /\ RatLt(benchmarks[s].cpa_p25, benchmarks[s].cpa_p50)
        /\ \A r \in BagToSet(benchmark_data) : r.cpa # benchmarks[s].cpa_p25
        /\ \E r \in BagToSet(benchmark_data) : IsNull(r.cpa)

C28_GateCountsCpaValues ==
    [][ (SegmentStep /\ benchmarks' # benchmarks) =>
            LET row == benchmarks'[RefreshSegments[refresh.next].name]
            IN  /\ ~ IsNull(row.cpa_p25) /\ ~ IsNull(row.cpa_p50) /\ ~ IsNull(row.cpa_p75)
                /\ Len(C22_Values) >= MinSample ]_vars

(***************************************************************************)
(* Further claims about the period comparisons (SpecCalc).                 *)
(***************************************************************************)
\* C23: the direction calculateCpaChange returns is one of improving,
\* worsening, stable, new, lost, for every spend and conversion count of the
\* two periods, both periods without conversions included.
C23_CpaDirections ==
    call.fn = "calculateCpaChange" =>
        call.result.direction \in {"improving", "worsening", "stable", "new", "lost"}

(***************************************************************************)
(* Further claims about the trend engine (SpecTrends).                     *)
(***************************************************************************)
\* The rows of the history whose day lies in the two windows of a scale.
C24_InEitherWindow(days) ==
    { r \in trends.rows : /\ DATE(r.recorded_at) >= trends.now - 2 * days * Day
                          /\ DATE(r.recorded_at) <= trends.now }

C24_CountedOnce(scale, days) ==
    /\ scale.current.conversions + scale.previous.conversions
           = Total(C24_InEitherWindow(days), "conversions")
    /\ scale.current.spend + scale.previous.spend = Total(C24_InEitherWindow(days), "cost")
    /\ scale.current.views + scale.previous.views = Total(C24_InEitherWindow(days), "views")

\* C24: the current and the previous window of a scale are disjoint: no history
\* row, one dated exactly now-7d, now-30d or now-365d included, is summed into
\* both totals of the scale, so the two totals add up to the total of the rows
\* of the two windows.
C24_WindowsDisjoint ==
    Computed =>
        /\ C24_CountedOnce(trends.weekly, 7)
        /\ C24_CountedOnce(trends.monthly, 30)
        /\ C24_CountedOnce(trends.yearly, 365)

(***************************************************************************)
(* Claims about the momentum report (SpecMomentum).                        *)
(***************************************************************************)
\* The strength of the signal a bucket is ordered by, of an entry of the
\* report and of a creator's statistics.
C25_Signal(entry, bucket) ==
    CASE bucket = "rising" -> entry.change
      [] bucket = "cooling" -> - entry.change
      [] bucket = "stalled" -> entry.daysSinceConversion

C25_SignalOf(st, bucket) ==
    CASE bucket = "rising" -> calculateChange(st.thisWeek, st.lastWeek).percent
      [] bucket = "cooling" -> - calculateChange(st.thisWeek, st.lastWeek).percent
      [] bucket = "stalled" -> daysSinceConversion(st, trends.now)

C25_LeftOut(bucket) ==
    { st \in C17_Classified(bucket) : st.name \notin C17_Names(trends.creatorMomentum[bucket]) }

\* C25: each bucket holds at most 5 entries, in the order of its signal
\* (rising by change descending, cooling by change ascending, stalled by
\* daysSinceConversion descending), and they are the strongest of all the
\* creators classified into it: the lists are cut after they are sorted.
C25_TopFiveBySignal ==
    Computed =>
        \A bucket \in {"rising", "cooling", "stalled"} :
            LET list == trends.creatorMomentum[bucket]
                all == C17_Classified(bucket)
            IN  /\ Len(list) = IF Cardinality(all) < 5 THEN Cardinality(all) ELSE 5
                /\ \A i, j \in 1..Len(list) :
                       i < j => C25_Signal(list[i], bucket) >= C25_Signal(list[j], bucket)
                /\ \A i \in 1..Len(list) :
                       \E st \in all : /\ st.name = list[i].name
                                       /\ C25_SignalOf(st, bucket) = C25_Signal(list[i], bucket)
                /\ \A st \in C25_LeftOut(bucket) :
                       \A i \in 1..Len(list) :
                           C25_Signal(list[i], bucket) >= C25_SignalOf(st, bucket)

\* Six creators are rising; the one left out is not the last one pushed, and
\* the last one pushed leads the list.
C25_Witness ==
    /\ Computed
    /\ Cardinality(C17_Classified("rising")) = 6
    /\ Len(trends.creatorMomentum.rising) = 5
    /\ trends.creatorMomentum.rising[1].name = CreatorNames[6]
    /\ trends.creatorMomentum.rising[1].change > trends.creatorMomentum.rising[5].change
    /\ \E st \in C25_LeftOut("rising") : st.id < 6

C26_Creators ==
    LET perDay == influencerHistory(trends.rows, trends.now)
    IN  { creatorStats(perDay, id, trends.now) : id \in { g.influencer_id : g \in perDay } }

\* C26: with conversion counts >= 0 no creator reaches the stalled bucket: a
\* creator with lastWeek > 0 that is neither rising nor cooling converted this
\* week, so its last conversion is at most 7 days old.
C26_StalledIsUnreachable ==
    Computed =>
        /\ trends.creatorMomentum.stalled = <<>>
        /\ \A st \in C26_Creators :
               (/\ st.lastWeek > 0
                /\ C17_FirstRule(st.thisWeek, st.lastWeek, NoDate) = "omitted") =>
                   /\ st.thisWeek > 0
                   /\ daysSinceConversion(st, trends.now) # NoDate
                   /\ daysSinceConversion(st, trends.now) <= 7

\* A creator with lastWeek > 0 passes the rising and the cooling test with its
\* last conversion exactly 7 days old, and another call finds a creator whose
\* last conversion is more than 7 days old cooling.
C26_Witness ==
    /\ Computed
    /\ \E st \in C26_Creators :
           /\ st.lastWeek > 0
           /\ C17_FirstRule(st.thisWeek, st.lastWeek, NoDate) = "omitted"
           /\ daysSinceConversion(st, trends.now) = 7
    /\ trends.creatorMomentum.stalled = <<>>

(***************************************************************************)
(* Claims about the briefing cache (SpecBriefing).                         *)
(***************************************************************************)
\* C29: a request whose query on the tenant's influencers rows throws stores
\* nothing in table ai_briefings: no step of it changes the table, so no
\* briefing made of empty data (score 50, onboarding text) is cached for a
\* tenant that has creators.
C29_FailedReadCachesNothing ==
    [][ (~ sql.influencers /\ Len(influencers) > 0) => ai_briefings' = ai_briefings ]_vars

\* C30: detectActions never divides by a zero or missing benchmark value: for
\* every benchmarks row with sample_size > 0, cpa_p50 equal to 0 while
\* cpa_p75 > 0 included, the percentage placed in a scale_platform or a
\* high_cpa action is a finite number.
C30_PercentagesAreFinite ==
    call.fn = "detectActions" =>
        \A i \in 1..Len(call.result) :
            call.result[i].type \in {"scale_platform", "high_cpa"} =>
                IsNull(call.result[i].percent) \/ IsFinite(call.result[i].percent)


====
